---------------------------- MODULE Spec2Model ----------------------------
(***************************************************************************)
(* Model of the benchmark orchestration engine of db-benchmark:            *)
(*   - BenchmarkRunner (src/src/benchmark/benchmark-runner.js): the batch  *)
(*     writer, the read phase runner, the concurrency harness and the      *)
(*     full-run orchestration;                                             *)
(*   - DataGenerator (src/unnamed/part_007): conversations, distributed    *)
(*     timestamps and messages.                                            *)
(* Each component has its own specification over the shared variables; the *)
(* variables of the components a specification does not run stay idle.     *)
(***************************************************************************)
EXTENDS Integers, Sequences, FiniteSets, TLC

(***************************************************************************)
(* Bounds of the model.                                                    *)
(***************************************************************************)
MaxData == 5        \* longest entity list handed to the batch writer
MaxBatch == 3       \* largest options.batchSize
MaxWarmup == 2      \* largest options.warmupRuns
MaxRuns == 2        \* largest options.benchmarkRuns
MaxUsers == 2       \* largest concurrentUsers
MaxOps == 2         \* largest operationsPerUser
MaxDatabases == 2   \* longest options.databases
MaxSpan == 7        \* the random source's dates lie in Origin..Origin + MaxSpan (ms)
MaxMessages == 2    \* largest messagesPerConversation
MaxSellers == 2     \* most sellers of a scenario
MaxBuyers == 2      \* most buyers of a scenario
MaxPerSeller == 2   \* largest conversationsPerSeller
Origin == 10        \* the earliest date, in ms since the epoch

\* the durations a call may be measured to take (differences of performance.now())
Durations == {1, 2}

Min(a, b) == IF a <= b THEN a ELSE b
Max(a, b) == IF a >= b THEN a ELSE b

RECURSIVE SumSeq(_)
SumSeq(s) == IF s = <<>> THEN 0 ELSE Head(s) + SumSeq(Tail(s))

RECURSIVE Concat(_)
Concat(ss) == IF ss = <<>> THEN <<>> ELSE Head(ss) \o Concat(Tail(ss))

VARIABLES
  \* ---- batch writer: benchmarkEntityWrites ----
  wpc,          \* "idle" | "loop" | "done"
  batchSize,    \* this.options.batchSize
  wdata,        \* the data argument
  batches,      \* const batches = this.createBatches(data, batchSize)
  wi,           \* the loop counter i
  wresults,     \* the results object
  wcalls,       \* the calls client[methodName](batch) received, with outcome
  winflight     \* the chunk writes awaited and not yet settled, by number

wvars == <<wpc, batchSize, wdata, batches, wi, wresults, wcalls, winflight>>

  \* ---- read phase runner: runReadBenchmarks ----
VARIABLES
  rpc,            \* "idle" | "warmup" | "measure" | "stats" | "done"
  warmupRuns,     \* this.options.warmupRuns
  benchmarkRuns,  \* this.options.benchmarkRuns
  rb,             \* position of the current benchmark in the benchmarks array
  ri,             \* the loop counter i of the warmup / measurement loop
  rtimes,         \* const times = []
  rerrors,        \* errors.length
  rresults,       \* const results = {}
  rcalls,         \* invocations of benchmark.operation() for the current benchmark
  rinflight       \* the calls of benchmark.operation() not yet settled

rvars == <<rpc, warmupRuns, benchmarkRuns, rb, ri, rtimes, rerrors, rresults, rcalls,
           rinflight>>

  \* ---- concurrency harness: runConcurrencyTest ----
VARIABLES
  cpc,                \* "idle" | "running" | "done"
  concurrentUsers,    \* argument concurrentUsers
  operationsPerUser,  \* argument operationsPerUser
  users,              \* per actor: loop counter, call in flight, userResults
  crejected,          \* per actor: how many of its backend calls were rejected
  cissued,            \* per actor: how many backend calls it has issued
  csettled,           \* per actor: how many of its backend calls have settled
  cresult             \* the object runConcurrencyTest returns

cvars == <<cpc, concurrentUsers, operationsPerUser, users, crejected,
           cissued, csettled, cresult>>

  \* ---- the full run: constructor and runFullBenchmark ----
VARIABLES
  fpc,          \* "constructed" | "connecting" | "writes" | "reads" |
                \* "concurrency" | "report" | "cleanup" | "returned" | "rejected"
  databases,    \* this.options.databases, the requested backends
  clients,      \* Object.keys(this.clients), in insertion order
  connection,   \* per client: the state of its connect() promise
  fdb,          \* position in Object.keys(this.clients) of the phase's for-of
  fresults,     \* this.results
  fissued,      \* the benchmarks run so far, category and backend, in order
  fthrown,      \* the error the try block of runFullBenchmark threw, if any
  disconnected, \* the clients disconnect() was called on
  report        \* what runFullBenchmark hands to its caller

fvars == <<fpc, databases, clients, connection, fdb, fresults, fissued,
           fthrown, disconnected, report>>

  \* ---- DataGenerator ----
VARIABLES
  gpc,                  \* position in the generator operation under way
  faker,                \* what the random source can yield in this run
  gparams,              \* the arguments of the operation under way
  sellerIds,            \* the seller ids given to generateConversations
  buyers,               \* generateRealisticConversationBatch buyers
  buyerIds,             \* the buyer ids given to generateConversations
  gs,                   \* position of the for-of over sellerIds
  uniqueConversations,  \* generateConversations uniqueConversations
  conversations,        \* the conversations generated so far
  gc,                   \* position of the for-of over conversations
  messages              \* the messages generated so far

gvars == <<gpc, faker, gparams, sellerIds, buyers, buyerIds, gs,
           uniqueConversations, conversations, gc, messages>>

  \* ---- the summary: findBestPerformer ----
VARIABLES
  spc,        \* "idle" | "done"
  scall,      \* the arguments category, metric, lowerIsBetter of the call
  sresults,   \* this.results[category]: its entries in insertion order
  winner      \* what findBestPerformer returned

svars == <<spc, scall, sresults, winner>>

  \* ---- the isolated benchmark command and the docker orchestrator ----
VARIABLES
  dpc,              \* where the command's action stands
  dcommand,         \* which benchmark-isolated action runs, and its options
  dk,               \* the position of the for-of loop over the databases
  running,          \* the database services whose containers are up
  target,           \* the database a benchmark is running against, or "none"
  dlog,             \* the docker commands executed so far, in order
  isolatedResults,  \* isolatedResults.databases
  derror            \* what a call made on the orchestrator itself threw

dvars == <<dpc, dcommand, dk, running, target, dlog, isolatedResults,
           derror>>

  \* ---- one backend adapter and its driver ----
VARIABLES
  adapter,      \* which adapter class the object is
  handle,       \* this.client / this.pool: "null" or "object"
  driver,       \* the driver object behind the handle
  isConnected,  \* this.isConnected
  closes,       \* how often the driver object behind the handle was closed
  alog          \* the calls made on the adapter and how each one ended

avars == <<adapter, handle, driver, isConnected, closes, alog>>

  \* ---- the orchestrator waiting for a database ----
VARIABLES
  qpc,        \* where waitForDatabase stands
  qversion,   \* which orchestrator's waitForDatabase runs
  attempt,    \* the loop variable attempt
  probes,     \* the readiness probes issued so far
  failures,   \* the probes that threw
  lastProbe   \* how the latest probe ended

qvars == <<qpc, qversion, attempt, probes, failures, lastProbe>>

  \* ---- the orchestrator initializing the schemas ----
VARIABLES
  ipc,          \* where initializeDatabaseSchemas stands
  idatabases,   \* its argument databases
  ik,           \* the position of its for-of loop
  retry,        \* initializeScyllaDBWithRetry: the loop variable attempt
  tries,        \* initializeScyllaDBWithRetry: calls of initializeSchema
  retryResult,  \* what the latest initializeScyllaDBWithRetry returned
  ilog          \* the databases gone through and how each ended

ivars == <<ipc, idatabases, ik, retry, tries, retryResult, ilog>>

vars == <<wvars, rvars, cvars, fvars, gvars, svars, dvars, avars, qvars, ivars>>

\* what each component leaves alone
OthersThanW == <<rvars, cvars, fvars, gvars, svars, dvars, avars, qvars, ivars>>
OthersThanR == <<wvars, cvars, fvars, gvars, svars, dvars, avars, qvars, ivars>>
OthersThanC == <<wvars, rvars, fvars, gvars, svars, dvars, avars, qvars, ivars>>
OthersThanF == <<wvars, rvars, cvars, gvars, svars, dvars, avars, qvars, ivars>>
OthersThanG == <<wvars, rvars, cvars, fvars, svars, dvars, avars, qvars, ivars>>
OthersThanS == <<wvars, rvars, cvars, fvars, gvars, dvars, avars, qvars, ivars>>
OthersThanD == <<wvars, rvars, cvars, fvars, gvars, svars, avars, qvars, ivars>>
OthersThanQ == <<wvars, rvars, cvars, fvars, gvars, svars, dvars, avars, ivars>>
OthersThanI == <<wvars, rvars, cvars, fvars, gvars, svars, dvars, avars, qvars>>
OthersThanA == <<wvars, rvars, cvars, fvars, gvars, svars, dvars, qvars, ivars>>

(***************************************************************************)
(* Array.prototype.slice(from, to) on a 0-based array: elements from..to-1,*)
(* clipped to the array's length.                                          *)
(***************************************************************************)
slice(data, from, to) == SubSeq(data, from + 1, Min(to, Len(data)))

(***************************************************************************)
(* createBatches: for (i = 0; i < data.length; i += batchSize)             *)
(*                  batches.push(data.slice(i, i + batchSize))             *)
(***************************************************************************)
RECURSIVE createBatchesFrom(_, _, _)
createBatchesFrom(data, size, i) ==
  IF i < Len(data)
    THEN <<slice(data, i, i + size)>> \o createBatchesFrom(data, size, i + size)
    ELSE <<>>

\* a chunking that drops the element at each chunk boundary
createBatchesSkipping(data, size) ==
  LET RECURSIVE from(_)
      from(i) == IF i < Len(data)
                   THEN <<slice(data, i, i + size)>> \o from(i + size + 1)
                   ELSE <<>>
  IN from(0)

createBatches(data, size) == createBatchesFrom(data, size, 0)

\* Math.min(...times) / Math.max(...times): Infinity / -Infinity on no samples
MathMin(times) ==
  IF times = <<>> THEN "Infinity"
  ELSE CHOOSE t \in {times[k] : k \in DOMAIN times} :
         \A k \in DOMAIN times : t <= times[k]
MathMax(times) ==
  IF times = <<>> THEN "-Infinity"
  ELSE CHOOSE t \in {times[k] : k \in DOMAIN times} :
         \A k \in DOMAIN times : t >= times[k]

\* a / b in IEEE arithmetic for a, b >= 0, kept as a fraction
Div(a, b) ==
  IF b = 0 THEN (IF a = 0 THEN [kind |-> "NaN"] ELSE [kind |-> "Infinity"])
  ELSE [kind |-> "num", num |-> a, den |-> b]

\* a loop that starts every remaining call at once
issuesUnawaited(i, n) == IF i < n THEN (i + 1)..n ELSE {}

\* for (let i = 0; i < n; i++) { try { await call } catch {} }: once i calls
\* have settled the loop test is made, and if it passes call i + 1 is
\* started and awaited
issues(i, n) == IF i < n THEN {i + 1} ELSE {}

NoResults == [totalRecords |-> 0, batchSize |-> 0, batches |-> 0,
              times |-> <<>>, errors |-> 0, stats |-> [kind |-> "none"]]

WIdle ==
  /\ wpc = "idle"
  /\ wdata = <<>>
  /\ batches = <<>>
  /\ wi = 0
  /\ wresults = NoResults
  /\ wcalls = <<>>
  /\ winflight = {}

WInit ==
  /\ batchSize \in 1..MaxBatch
  /\ WIdle

(***************************************************************************)
(* benchmarkEntityWrites(client, entityType, data), up to the chunk loop.  *)
(* The entities are told apart by their position in data.                  *)
(***************************************************************************)
benchmarkEntityWritesBegin ==
  /\ wpc = "idle"
  /\ \E n \in 0..MaxData :
       /\ wdata' = [k \in 1..n |-> k]
       /\ batches' = createBatches(wdata', batchSize)
       /\ wresults' = [totalRecords |-> n, batchSize |-> batchSize,
                       batches |-> Len(batches'), times |-> <<>>,
                       errors |-> 0, stats |-> [kind |-> "none"]]
  /\ wi' = 0
  /\ wcalls' = <<>>
  /\ winflight' = issues(0, Len(batches'))
  /\ wpc' = "loop"
  /\ UNCHANGED <<batchSize, OthersThanW>>

\* the chunk loop leaves at the first failing chunk
writeBatchAborting ==
  /\ wpc = "loop"
  /\ wi < Len(batches)
  /\ \/ \E d \in Durations :
          /\ wcalls' = Append(wcalls, [batch |-> batches[wi + 1], ok |-> TRUE])
          /\ wresults' = [wresults EXCEPT !.times = Append(@, d)]
          /\ wi' = wi + 1
     \/ /\ wcalls' = Append(wcalls, [batch |-> batches[wi + 1], ok |-> FALSE])
        /\ wresults' = [wresults EXCEPT !.errors = @ + 1]
        /\ wi' = Len(batches)
  /\ winflight' = (winflight \ {wi + 1}) \cup issues(wi', Len(batches))
  /\ UNCHANGED <<wpc, batchSize, wdata, batches, OthersThanW>>

(***************************************************************************)
(* One iteration of the chunk loop: await client[methodName](batch) either *)
(* resolves (its duration is pushed to results.times) or rejects           *)
(* (results.errors++); either way the loop goes on with i + 1.             *)
(***************************************************************************)
writeBatch ==
  /\ wpc = "loop"
  /\ wi < Len(batches)
  /\ \/ \E d \in Durations :
          /\ wcalls' = Append(wcalls, [batch |-> batches[wi + 1], ok |-> TRUE])
          /\ wresults' = [wresults EXCEPT !.times = Append(@, d)]
     \/ /\ wcalls' = Append(wcalls, [batch |-> batches[wi + 1], ok |-> FALSE])
        /\ wresults' = [wresults EXCEPT !.errors = @ + 1]
  /\ wi' = wi + 1
  /\ winflight' = (winflight \ {wi + 1}) \cup issues(wi', Len(batches))
  /\ UNCHANGED <<wpc, batchSize, wdata, batches, OthersThanW>>

(***************************************************************************)
(* After the loop: the statistics, computed whatever times holds.          *)
(***************************************************************************)
benchmarkEntityWritesEnd ==
  /\ wpc = "loop"
  /\ ~(wi < Len(batches))
  /\ LET times == wresults.times
         totalTime == SumSeq(times)
     IN wresults' = [wresults EXCEPT !.stats =
          [totalTime |-> totalTime,
           avgTime |-> Div(totalTime, Len(times)),
           minTime |-> MathMin(times),
           maxTime |-> MathMax(times),
           \* totalRecords / (totalTime / 1000)
           throughput |-> Div(wresults.totalRecords * 1000, totalTime)]]
  /\ wpc' = "done"
  /\ UNCHANGED <<batchSize, wdata, batches, wi, wcalls, winflight, OthersThanW>>

\* the caller takes the returned results; the writer is ready for the next entity type
benchmarkEntityWritesReturn ==
  /\ wpc = "done"
  /\ wpc' = "idle"
  /\ wdata' = <<>>
  /\ batches' = <<>>
  /\ wi' = 0
  /\ wresults' = NoResults
  /\ wcalls' = <<>>
  /\ winflight' = {}
  /\ UNCHANGED <<batchSize, OthersThanW>>

(***************************************************************************)
(* The read phase runner.                                                  *)
(***************************************************************************)
\* the names of the four entries of the benchmarks array, in order
benchmarks ==
  <<"Recent Messages", "Conversation Messages", "Inactive Conversations",
    "Message Search">>

BenchmarkNames == {benchmarks[k] : k \in DOMAIN benchmarks}

\* lengths of the arrays the read operations resolve with
RowCounts == {2}

Absent == [kind |-> "absent"]
NoCalls == [warmup |-> 0, warmupFailed |-> 0, measure |-> 0, measureFailed |-> 0]

RIdle ==
  /\ rpc = "idle"
  /\ rb = 0
  /\ ri = 0
  /\ rtimes = <<>>
  /\ rerrors = 0
  /\ rresults = [n \in BenchmarkNames |-> Absent]
  /\ rcalls = NoCalls
  /\ rinflight = {}

RInit ==
  /\ warmupRuns \in 0..MaxWarmup
  /\ benchmarkRuns \in 0..MaxRuns
  /\ RIdle

RConfigUnchanged == UNCHANGED <<warmupRuns, benchmarkRuns, OthersThanR>>

\* the calls of one loop, told apart by loop and iteration
callsOf(phase, runs) == {[phase |-> phase, run |-> k] : k \in runs}

\* runReadBenchmarks(client, dbName): results = {}, first benchmark of the for-of
runReadBenchmarksBegin ==
  /\ rpc = "idle"
  /\ rresults' = [n \in BenchmarkNames |-> Absent]
  /\ rb' = 1
  /\ ri' = 0
  /\ rtimes' = <<>>
  /\ rerrors' = 0
  /\ rcalls' = NoCalls
  /\ rinflight' = callsOf("warmup", issues(0, warmupRuns))
  /\ rpc' = "warmup"
  /\ RConfigUnchanged

(***************************************************************************)
(* One warmup iteration: try { await benchmark.operation() } catch {}      *)
(* The outcome, resolved or rejected, leaves nothing behind.               *)
(***************************************************************************)
warmupRun ==
  /\ rpc = "warmup"
  /\ ri < warmupRuns
  /\ \/ rcalls' = [rcalls EXCEPT !.warmup = @ + 1]
     \/ rcalls' = [rcalls EXCEPT !.warmup = @ + 1, !.warmupFailed = @ + 1]
  /\ ri' = ri + 1
  /\ rinflight' = (rinflight \ callsOf("warmup", {ri + 1}))
                    \cup callsOf("warmup", issues(ri', warmupRuns))
  /\ UNCHANGED <<rpc, rb, rtimes, rerrors, rresults>>
  /\ RConfigUnchanged

warmupEnd ==
  /\ rpc = "warmup"
  /\ ~(ri < warmupRuns)
  /\ rpc' = "measure"
  /\ ri' = 0
  /\ rinflight' = callsOf("measure", issues(0, benchmarkRuns))
  /\ UNCHANGED <<rb, rtimes, rerrors, rresults, rcalls>>
  /\ RConfigUnchanged

\* a rejected measurement call leaves the measurement loop
measureRunAborting ==
  /\ rpc = "measure"
  /\ ri < benchmarkRuns
  /\ \/ \E d \in Durations, rows \in RowCounts :
          /\ rcalls' = [rcalls EXCEPT !.measure = @ + 1]
          /\ rtimes' = Append(rtimes, d)
          /\ rresults' = IF ri = 0
               THEN [rresults EXCEPT ![benchmarks[rb]] =
                       [kind |-> "partial", resultCount |-> rows]]
               ELSE rresults
          /\ ri' = ri + 1
          /\ UNCHANGED rerrors
     \/ /\ rcalls' = [rcalls EXCEPT !.measure = @ + 1, !.measureFailed = @ + 1]
        /\ rerrors' = rerrors + 1
        /\ ri' = benchmarkRuns
        /\ UNCHANGED <<rtimes, rresults>>
  /\ rinflight' = (rinflight \ callsOf("measure", {ri + 1}))
                    \cup callsOf("measure", issues(ri', benchmarkRuns))
  /\ UNCHANGED <<rpc, rb>>
  /\ RConfigUnchanged

(***************************************************************************)
(* One measurement iteration.  Resolved: the duration is pushed to times   *)
(* and, for i = 0, results[name] = {...results[name], resultCount}.        *)
(* Rejected: errors.push(error.message).  The loop goes on either way.     *)
(***************************************************************************)
measureRun ==
  /\ rpc = "measure"
  /\ ri < benchmarkRuns
  /\ \/ \E d \in Durations, rows \in RowCounts :
          /\ rcalls' = [rcalls EXCEPT !.measure = @ + 1]
          /\ rtimes' = Append(rtimes, d)
          /\ rresults' = IF ri = 0
               THEN [rresults EXCEPT ![benchmarks[rb]] =
                       [kind |-> "partial", resultCount |-> rows]]
               ELSE rresults
          /\ UNCHANGED rerrors
     \/ /\ rcalls' = [rcalls EXCEPT !.measure = @ + 1, !.measureFailed = @ + 1]
        /\ rerrors' = rerrors + 1
        /\ UNCHANGED <<rtimes, rresults>>
  /\ ri' = ri + 1
  /\ rinflight' = (rinflight \ callsOf("measure", {ri + 1}))
                    \cup callsOf("measure", issues(ri', benchmarkRuns))
  /\ UNCHANGED <<rpc, rb>>
  /\ RConfigUnchanged

measureEnd ==
  /\ rpc = "measure"
  /\ ~(ri < benchmarkRuns)
  /\ rpc' = "stats"
  /\ UNCHANGED <<rb, ri, rtimes, rerrors, rresults, rcalls, rinflight>>
  /\ RConfigUnchanged

\* results[benchmark.name]?.resultCount || 0
resultCountOf(entry) == IF entry.kind = "absent" THEN 0 ELSE entry.resultCount

(***************************************************************************)
(* The statistics of one benchmark, written only if (times.length > 0),    *)
(* then the next benchmark of the for-of, or the return.                   *)
(***************************************************************************)
calculateReadStatistics ==
  /\ rpc = "stats"
  /\ rresults' = IF Len(rtimes) > 0
       THEN [rresults EXCEPT ![benchmarks[rb]] =
               [kind |-> "full",
                runs |-> Len(rtimes),
                avgTime |-> Div(SumSeq(rtimes), Len(rtimes)),
                minTime |-> MathMin(rtimes),
                maxTime |-> MathMax(rtimes),
                errors |-> rerrors,
                resultCount |-> resultCountOf(rresults[benchmarks[rb]])]]
       ELSE rresults
  /\ IF rb < Len(benchmarks)
       THEN /\ rb' = rb + 1
            /\ rpc' = "warmup"
            /\ rinflight' = callsOf("warmup", issues(0, warmupRuns))
       ELSE /\ rb' = rb
            /\ rpc' = "done"
            /\ rinflight' = {}
  /\ ri' = 0
  /\ rtimes' = <<>>
  /\ rerrors' = 0
  /\ rcalls' = NoCalls
  /\ RConfigUnchanged

\* benchmarkReads stores the returned results; the runner is ready for the next client
runReadBenchmarksReturn ==
  /\ rpc = "done"
  /\ rpc' = "idle"
  /\ rb' = 0
  /\ rresults' = [n \in BenchmarkNames |-> Absent]
  /\ UNCHANGED <<ri, rtimes, rerrors, rcalls, rinflight>>
  /\ RConfigUnchanged

(***************************************************************************)
(* The concurrency harness.                                                *)
(***************************************************************************)
\* userResults = { userId, operations: 0, errors: 0, times: [] } with the
\* actor's loop counter i and the backend call it awaits ("none" when it
\* awaits nothing)
NewUser == [i |-> 0, inflight |-> "none", operations |-> 0, errors |-> 0,
            times |-> <<>>, returned |-> FALSE]

NoConcurrencyResult == [kind |-> "none"]

\* Math.random() < 0.7 ? a read (getConversationMessages) : a write (createMessage)
OperationKinds == {"read", "write"}

CIdle ==
  /\ cpc = "idle"
  /\ concurrentUsers = 0
  /\ operationsPerUser = 0
  /\ users = <<>>
  /\ crejected = <<>>
  /\ cissued = <<>>
  /\ csettled = <<>>
  /\ cresult = NoConcurrencyResult

RECURSIVE SumOver(_, _)
SumOver(f, S) ==
  IF S = {} THEN 0
  ELSE LET x == CHOOSE y \in S : TRUE IN f[x] + SumOver(f, S \ {x})

(***************************************************************************)
(* runConcurrencyTest(client, conversationIds, concurrentUsers,            *)
(* operationsPerUser): Array.from runs every actor's async function up to  *)
(* its first await, so each actor has issued its first operation (or has   *)
(* returned at once when operationsPerUser is 0) before anything settles.  *)
(***************************************************************************)
\* the calls are not awaited: an actor issues all of them in its first turn
firstIssuesUnawaited(o) == o

\* the calls an actor has issued when its async function reaches its first
\* await: the first operation of its loop, if the loop has one
firstIssues(o) == IF 0 < o THEN 1 ELSE 0

runConcurrencyTestBegin ==
  /\ cpc = "idle"
  /\ \E u \in 1..MaxUsers, o \in 1..MaxOps :
       /\ concurrentUsers' = u
       /\ operationsPerUser' = o
       /\ \E kinds \in [1..u -> OperationKinds] :
            users' = [k \in 1..u |->
                        IF 0 < o THEN [NewUser EXCEPT !.inflight = kinds[k]]
                                 ELSE [NewUser EXCEPT !.returned = TRUE]]
       /\ crejected' = [k \in 1..u |-> 0]
       /\ cissued' = [k \in 1..u |-> firstIssues(o)]
       /\ csettled' = [k \in 1..u |-> 0]
  /\ cresult' = NoConcurrencyResult
  /\ cpc' = "running"
  /\ UNCHANGED OthersThanC

\* the actor's loop ends one iteration early
AfterOperationEarly(user, next) ==
  IF user.i + 1 < operationsPerUser - 1
    THEN [user EXCEPT !.i = @ + 1, !.inflight = next]
    ELSE [user EXCEPT !.i = @ + 1, !.inflight = "none", !.returned = TRUE]

\* the actor's next loop iteration, or its return when the loop is over
AfterOperation(user, next) ==
  IF user.i + 1 < operationsPerUser
    THEN [user EXCEPT !.i = @ + 1, !.inflight = next]
    ELSE [user EXCEPT !.i = @ + 1, !.inflight = "none", !.returned = TRUE]

\* a rejected call is counted as an operation like a resolved one
operationSettlesCountingAll(k) ==
  /\ cpc = "running"
  /\ users[k].inflight # "none"
  /\ \E next \in OperationKinds :
       \/ \E d \in Durations :
            /\ users' = [users EXCEPT ![k] = AfterOperation(
                 [@ EXCEPT !.times = Append(@, d), !.operations = @ + 1], next)]
            /\ UNCHANGED crejected
       \/ /\ users' = [users EXCEPT ![k] = AfterOperation(
               [@ EXCEPT !.errors = @ + 1, !.operations = @ + 1], next)]
          /\ crejected' = [crejected EXCEPT ![k] = @ + 1]
  /\ csettled' = [csettled EXCEPT ![k] = @ + 1]
  /\ cissued' = [cissued EXCEPT ![k] =
                   IF users'[k].inflight # "none" THEN @ + 1 ELSE @]
  /\ UNCHANGED <<cpc, concurrentUsers, operationsPerUser, cresult, OthersThanC>>

\* the error count is one counter all actors share
operationSettlesSharingErrors(k) ==
  /\ cpc = "running"
  /\ users[k].inflight # "none"
  /\ \E next \in OperationKinds :
       \/ \E d \in Durations :
            /\ users' = [users EXCEPT ![k] = AfterOperation(
                 [@ EXCEPT !.times = Append(@, d), !.operations = @ + 1], next)]
            /\ UNCHANGED crejected
       \/ /\ users' = [j \in DOMAIN users |->
                         IF j = k
                           THEN AfterOperation(
                                  [users[j] EXCEPT !.errors = @ + 1], next)
                           ELSE [users[j] EXCEPT !.errors = @ + 1]]
          /\ crejected' = [crejected EXCEPT ![k] = @ + 1]
  /\ csettled' = [csettled EXCEPT ![k] = @ + 1]
  /\ cissued' = [cissued EXCEPT ![k] =
                   IF users'[k].inflight # "none" THEN @ + 1 ELSE @]
  /\ UNCHANGED <<cpc, concurrentUsers, operationsPerUser, cresult, OthersThanC>>

(***************************************************************************)
(* The call actor k awaits settles.  Resolved: times.push(duration) and    *)
(* operations++.  Rejected: errors++.  The actor then issues its next      *)
(* operation in the same turn, or returns its userResults.                 *)
(***************************************************************************)
operationSettles(k) ==
  /\ cpc = "running"
  /\ users[k].inflight # "none"
  /\ \E next \in OperationKinds :
       \/ \E d \in Durations :
            /\ users' = [users EXCEPT ![k] = AfterOperation(
                 [@ EXCEPT !.times = Append(@, d), !.operations = @ + 1], next)]
            /\ UNCHANGED crejected
       \/ /\ users' = [users EXCEPT ![k] = AfterOperation(
               [@ EXCEPT !.errors = @ + 1], next)]
          /\ crejected' = [crejected EXCEPT ![k] = @ + 1]
  /\ csettled' = [csettled EXCEPT ![k] = @ + 1]
  /\ cissued' = [cissued EXCEPT ![k] =
                   IF users'[k].inflight # "none" THEN @ + 1 ELSE @]
  /\ UNCHANGED <<cpc, concurrentUsers, operationsPerUser, cresult, OthersThanC>>

\* the harness goes on as soon as one actor has returned
aggregateResultsAtFirstReturn ==
  /\ cpc = "running"
  /\ \E k \in DOMAIN users : users[k].returned
  /\ \E span \in Durations :
       LET U == DOMAIN users
           totalOperations == SumOver([k \in U |-> users[k].operations], U)
           totalErrors == SumOver([k \in U |-> users[k].errors], U)
           allTimes == Concat([k \in U |-> users[k].times])
       IN cresult' =
            [kind |-> "result",
             concurrentUsers |-> concurrentUsers,
             operationsPerUser |-> operationsPerUser,
             totalOperations |-> totalOperations,
             totalErrors |-> totalErrors,
             totalTime |-> span,
             avgOperationTime |-> Div(SumSeq(allTimes), Len(allTimes)),
             \* totalOperations / ((endTime - startTime) / 1000)
             throughput |-> Div(totalOperations * 1000, span),
             errorRate |-> Div(totalErrors, concurrentUsers * operationsPerUser)]
  /\ cpc' = "done"
  /\ UNCHANGED <<concurrentUsers, operationsPerUser, users, crejected,
                 cissued, csettled, OthersThanC>>

(***************************************************************************)
(* await Promise.all(userPromises) resolves once every actor has returned; *)
(* the aggregation follows.  span is endTime - startTime.                  *)
(***************************************************************************)
aggregateResults ==
  /\ cpc = "running"
  /\ \A k \in DOMAIN users : users[k].returned
  /\ \E span \in Durations :
       LET U == DOMAIN users
           totalOperations == SumOver([k \in U |-> users[k].operations], U)
           totalErrors == SumOver([k \in U |-> users[k].errors], U)
           allTimes == Concat([k \in U |-> users[k].times])
       IN cresult' =
            [kind |-> "result",
             concurrentUsers |-> concurrentUsers,
             operationsPerUser |-> operationsPerUser,
             totalOperations |-> totalOperations,
             totalErrors |-> totalErrors,
             totalTime |-> span,
             avgOperationTime |-> Div(SumSeq(allTimes), Len(allTimes)),
             \* totalOperations / ((endTime - startTime) / 1000)
             throughput |-> Div(totalOperations * 1000, span),
             errorRate |-> Div(totalErrors, concurrentUsers * operationsPerUser)]
  /\ cpc' = "done"
  /\ UNCHANGED <<concurrentUsers, operationsPerUser, users, crejected,
                 cissued, csettled, OthersThanC>>

\* benchmarkConcurrency stores the result; the harness is ready for the next client
runConcurrencyTestReturn ==
  /\ cpc = "done"
  /\ cpc' = "idle"
  /\ concurrentUsers' = 0
  /\ operationsPerUser' = 0
  /\ users' = <<>>
  /\ crejected' = <<>>
  /\ cissued' = <<>>
  /\ csettled' = <<>>
  /\ cresult' = NoConcurrencyResult
  /\ UNCHANGED OthersThanC

(***************************************************************************)
(* The full run.  The phases are taken one backend at a time; what a phase *)
(* measures for a backend is kept as its error count only.                 *)
(***************************************************************************)
\* the keys of clientMap
clientMap == {"scylladb", "clickhouse", "timescaledb", "cockroachdb"}

\* the names a caller may request: the four adapters and a name clientMap lacks
RequestableNames == clientMap \cup {"mongodb"}

\* the lists of distinct names of length n
DistinctSeqs(S, n) ==
  {q \in [1..n -> S] : \A a, b \in 1..n : a # b => q[a] # q[b]}

\* for (const dbName of this.options.databases) if (clientMap[dbName]) ...
RECURSIVE clientsOf(_)
clientsOf(dbs) ==
  IF dbs = <<>> THEN <<>>
  ELSE IF Head(dbs) \in clientMap
         THEN <<Head(dbs)>> \o clientsOf(Tail(dbs))
         ELSE clientsOf(Tail(dbs))

ClientSet == {clients[k] : k \in DOMAIN clients}

NoReport == [kind |-> "none"]
NoError == "none"
EmptyObject == [n \in {} |-> NoError]

\* the adapters whose disconnect() lets a driver error through
(* ScyllaDBClient.disconnect and ClickHouseClient.disconnect await the     *)
(* driver's shutdown()/close() outside any try; the two pg adapters catch. *)
DisconnectMayThrow == {"scylladb", "clickhouse"}

\* new BenchmarkRunner({databases})
FInit ==
  /\ \E n \in 1..MaxDatabases : databases \in DistinctSeqs(RequestableNames, n)
  /\ clients = clientsOf(databases)
  /\ connection = [c \in ClientSet |-> "idle"]
  /\ fpc = "constructed"
  /\ fdb = 0
  /\ fresults = EmptyObject
  /\ fissued = <<>>
  /\ fthrown = NoError
  /\ disconnected = {}
  /\ report = NoReport

\* runFullBenchmark enters initialize: every client's connect() is called
runFullBenchmarkBegin ==
  /\ fpc = "constructed"
  /\ connection' = [c \in ClientSet |-> "pending"]
  /\ fpc' = "connecting"
  /\ UNCHANGED <<fissued, databases, clients, fdb, fresults, fthrown, disconnected, report>>
  /\ UNCHANGED OthersThanF

\* one connect() promise settles
connectSettles(c) ==
  /\ connection[c] = "pending"
  /\ \E outcome \in {"connected", "failed"} :
       connection' = [connection EXCEPT ![c] = outcome]
  /\ UNCHANGED <<fissued, fpc, databases, clients, fdb, fresults, fthrown, disconnected, report>>
  /\ UNCHANGED OthersThanF

(***************************************************************************)
(* await Promise.all(connectionPromises) rejects with the first rejected   *)
(* connect(); initialize rethrows, runFullBenchmark's catch rethrows, and  *)
(* the finally block is next.                                              *)
(***************************************************************************)
initializeRejects ==
  /\ fpc = "connecting"
  /\ \E c \in ClientSet : connection[c] = "failed"
  /\ fthrown' = "connection"
  /\ fpc' = "cleanup"
  /\ UNCHANGED <<fissued, databases, clients, connection, fdb, fresults, disconnected, report>>
  /\ UNCHANGED OthersThanF

\* the connections are awaited with Promise.allSettled
initializeResolvesOnceSettled ==
  /\ fpc = "connecting"
  /\ \A c \in ClientSet : connection[c] # "pending"
  /\ fresults' = [cat \in {"writes"} |-> EmptyObject]
  /\ fdb' = 1
  /\ fpc' = "writes"
  /\ UNCHANGED <<fissued, databases, clients, connection, fthrown, disconnected, report>>
  /\ UNCHANGED OthersThanF

(***************************************************************************)
(* Every connect() resolved: cleanupDatabases (errors caught per client)   *)
(* and the health checks (the adapters' healthCheck never rejects) follow, *)
(* then benchmarkWrites starts with this.results.writes = {}.              *)
(***************************************************************************)
initializeResolves ==
  /\ fpc = "connecting"
  /\ \A c \in ClientSet : connection[c] = "connected"
  /\ fresults' = [cat \in {"writes"} |-> EmptyObject]
  /\ fdb' = 1
  /\ fpc' = "writes"
  /\ UNCHANGED <<fissued, databases, clients, connection, fthrown, disconnected, report>>
  /\ UNCHANGED OthersThanF

\* obj[key] = value on an object kept as a function
SetKey(obj, key, value) ==
  [n \in DOMAIN obj \cup {key} |-> IF n = key THEN value ELSE obj[n]]

\* the for-of of a phase takes the clients last to first
PhaseStepBackwards(category) ==
  /\ fpc = category
  /\ fdb <= Len(clients)
  /\ \E errors \in {0, 1} :
       fresults' = [fresults EXCEPT ![category] =
                      SetKey(@, clients[Len(clients) + 1 - fdb],
                             [errors |-> errors])]
  /\ fissued' = Append(fissued, [category |-> category,
                                 dbName |-> clients[Len(clients) + 1 - fdb]])
  /\ fdb' = fdb + 1
  /\ UNCHANGED <<fpc, databases, clients, connection, fthrown, disconnected, report>>
  /\ UNCHANGED OthersThanF

\* one backend of a phase's for-of: this.results[category][dbName] = the results
PhaseStep(category) ==
  /\ fpc = category
  /\ fdb <= Len(clients)
  /\ \E errors \in {0, 1} :
       fresults' = [fresults EXCEPT ![category] =
                      SetKey(@, clients[fdb], [errors |-> errors])]
  /\ fissued' = Append(fissued, [category |-> category, dbName |-> clients[fdb]])
  /\ fdb' = fdb + 1
  /\ UNCHANGED <<fpc, databases, clients, connection, fthrown, disconnected, report>>
  /\ UNCHANGED OthersThanF

\* the for-of is over; the next phase starts with this.results[next] = {}
PhaseEnd(category, next) ==
  /\ fpc = category
  /\ fdb > Len(clients)
  /\ fresults' = IF next = "report" THEN fresults
                 ELSE SetKey(fresults, next, EmptyObject)
  /\ fdb' = 1
  /\ fpc' = next
  /\ UNCHANGED <<fissued, databases, clients, connection, fthrown, disconnected, report>>
  /\ UNCHANGED OthersThanF

\* what a phase or generateReport throws outside the try blocks of its loops
\* (the display of a phase's results, the summary) leaves the try block of
\* runFullBenchmark: catch rethrows it, and the finally block is next
phaseThrows ==
  /\ fpc \in {"writes", "reads", "concurrency", "report"}
  /\ fthrown' = "phase"
  /\ fpc' = "cleanup"
  /\ UNCHANGED <<fissued, databases, clients, connection, fdb, fresults,
                 disconnected, report>>
  /\ UNCHANGED OthersThanF

benchmarkWrites == PhaseStep("writes")
benchmarkWritesEnd == PhaseEnd("writes", "reads")
benchmarkReads == PhaseStep("reads")
benchmarkReadsEnd == PhaseEnd("reads", "concurrency")
benchmarkConcurrency == PhaseStep("concurrency")
benchmarkConcurrencyEnd == PhaseEnd("concurrency", "report")

(***************************************************************************)
(* generateReport: { timestamp, configuration: this.options,               *)
(* results: this.results, summary: { winner, metrics } }, where            *)
(* getSystemMetrics gives every client an entry, its metrics or its error. *)
(***************************************************************************)
generateReport ==
  /\ fpc = "report"
  /\ \E metrics \in [ClientSet -> {[records |-> "counts"], [error |-> "message"]}] :
       report' = [kind |-> "report",
                  configuration |-> [databases |-> databases],
                  results |-> fresults,
                  summary |-> [metrics |-> metrics]]
  /\ fpc' = "cleanup"
  /\ UNCHANGED <<fissued, databases, clients, connection, fdb, fresults, fthrown, disconnected>>
  /\ UNCHANGED OthersThanF

\* cleanup() called at the end of the try block, not in a finally
cleanupAfterSuccessOnly ==
  /\ fpc = "cleanup"
  /\ disconnected' = IF fthrown = NoError THEN ClientSet ELSE disconnected
  /\ \/ /\ fthrown = NoError
        /\ fpc' = "returned"
        /\ UNCHANGED <<report, fthrown>>
     \/ /\ fthrown # NoError
        /\ fpc' = "rejected"
        /\ UNCHANGED <<report, fthrown>>
     \/ /\ ClientSet \cap DisconnectMayThrow # {}
        /\ fthrown' = "disconnect"
        /\ report' = NoReport
        /\ fpc' = "rejected"
  /\ UNCHANGED <<fissued, databases, clients, connection, fdb, fresults>>
  /\ UNCHANGED OthersThanF

(***************************************************************************)
(* finally { await this.cleanup() }: disconnect() is called on every       *)
(* client.  If one rejects, runFullBenchmark rejects with that error       *)
(* whatever the try block did; otherwise it returns the report or rejects  *)
(* with the error the try block threw.                                     *)
(***************************************************************************)
cleanup ==
  /\ fpc = "cleanup"
  /\ disconnected' = ClientSet
  /\ \/ /\ fthrown = NoError
        /\ fpc' = "returned"
        /\ UNCHANGED <<report, fthrown>>
     \/ /\ fthrown # NoError
        /\ fpc' = "rejected"
        /\ UNCHANGED <<report, fthrown>>
     \/ /\ ClientSet \cap DisconnectMayThrow # {}
        /\ fthrown' = "disconnect"
        /\ report' = NoReport
        /\ fpc' = "rejected"
  /\ UNCHANGED <<fissued, databases, clients, connection, fdb, fresults>>
  /\ UNCHANGED OthersThanF

(***************************************************************************)
(* The data generator.  Identifiers (uuidv4) are told apart by number; a   *)
(* date is its getTime() in ms.  Every random draw is an input: the caller *)
(* of an operator passes the drawn values in.                              *)
(***************************************************************************)
\* this.senderTypes
senderTypes == {"seller", "buyer"}

\* the dates the random source can yield
Instants == Origin..(Origin + faker.span)

NoParams == [op |-> "none"]

GIdle ==
  /\ gpc = "idle"
  /\ gparams = NoParams
  /\ sellerIds = <<>>
  /\ buyers = <<>>
  /\ buyerIds = <<>>
  /\ gs = 0
  /\ uniqueConversations = {}
  /\ conversations = <<>>
  /\ gc = 0
  /\ messages = <<>>

(***************************************************************************)
(* generateConversation(sellerId, buyerId, platform = 'whatsapp') with the *)
(* drawn id, createdAt = faker.date.recent({days: 3}) and lastMessageAt =  *)
(* faker.date.between({from: createdAt, to: new Date()}).                  *)
(***************************************************************************)
generateConversation(id, sellerId, buyerId, platform, createdAt, lastMessageAt) ==
  [id |-> id, seller_id |-> sellerId, buyer_id |-> buyerId,
   platform |-> platform, created_at |-> createdAt,
   updated_at |-> lastMessageAt, last_message_at |-> lastMessageAt]

\* the pairs (createdAt, lastMessageAt) the two date draws can give
ConversationDates ==
  {d \in Instants \X Instants : d[1] <= d[2]}

\* timestamps.sort((a, b) => a - b): ascending
RECURSIVE InsertTimestamp(_, _)
InsertTimestamp(sorted, x) ==
  IF sorted = <<>> THEN <<x>>
  ELSE IF x < Head(sorted)
         THEN <<x>> \o sorted
         ELSE <<Head(sorted)>> \o InsertTimestamp(Tail(sorted), x)

RECURSIVE SortTimestamps(_)
SortTimestamps(s) ==
  IF s = <<>> THEN <<>>
  ELSE InsertTimestamp(SortTimestamps(SubSeq(s, 1, Len(s) - 1)), s[Len(s)])

\* a comparator with its operands swapped: descending
RECURSIVE InsertMessageDescending(_, _)
InsertMessageDescending(sorted, m) ==
  IF sorted = <<>> THEN <<m>>
  ELSE IF m.timestamp > Head(sorted).timestamp
         THEN <<m>> \o sorted
         ELSE <<Head(sorted)>> \o InsertMessageDescending(Tail(sorted), m)

\* messages.sort((a, b) => a.timestamp - b.timestamp): ascending and stable
RECURSIVE InsertMessage(_, _)
InsertMessage(sorted, m) ==
  IF sorted = <<>> THEN <<m>>
  ELSE IF m.timestamp < Head(sorted).timestamp
         THEN <<m>> \o sorted
         ELSE <<Head(sorted)>> \o InsertMessage(Tail(sorted), m)

RECURSIVE SortMessages(_)
SortMessages(s) ==
  IF s = <<>> THEN <<>>
  ELSE InsertMessage(SortMessages(SubSeq(s, 1, Len(s) - 1)), s[Len(s)])

(***************************************************************************)
(* faker.number.int({min: -interval * 0.3, max: interval * 0.3}) yields an *)
(* integer in ceil(min)..floor(max), where interval = (end - start)/count: *)
(* floor(interval * 0.3) = floor(3 (end - start) / (10 count)).            *)
(***************************************************************************)
MaxOffset(start, end, count) == (3 * (end - start)) \div (10 * count)

\* the draws of one call, one for each iteration of its loop (none when
\* count is 0: the loop body never runs)
Offsets(start, end, count) ==
  IF count = 0 THEN {<<>>}
  ELSE [0..(count - 1) ->
          (0 - MaxOffset(start, end, count))..MaxOffset(start, end, count)]

(***************************************************************************)
(* generateDistributedTimestamps(startDate, endDate, count): slot i gets   *)
(* new Date(start + interval * i + randomOffset), which drops the          *)
(* fraction; the result is sorted ascending.  offsets[i] is the draw of    *)
(* iteration i.                                                            *)
(***************************************************************************)
generateDistributedTimestamps(start, end, count, offsets) ==
  SortTimestamps([k \in 1..count |->
                    start + ((end - start) * (k - 1)) \div count
                      + offsets[k - 1]])

\* generateMessage(conversationId, senderId, senderType, baseTimestamp)
generateMessage(conversationId, senderId, senderType, timestamp) ==
  [conversation_id |-> conversationId, sender_type |-> senderType,
   sender_id |-> senderId, timestamp |-> timestamp]

\* every message gets the buyer's id, whoever its sender is
generateConversationMessagesFromBuyer(conversation, n, offsets, senders) ==
  LET timestamps == generateDistributedTimestamps(
                      conversation.created_at, conversation.last_message_at,
                      n, offsets)
  IN SortMessages(
       [k \in 1..n |->
          generateMessage(conversation.id, conversation.buyer_id,
                          senders[k - 1], timestamps[k])])

(***************************************************************************)
(* generateConversationMessages(conversation, sellerIds, buyerIds, n):     *)
(* senders[i] is the sender type drawn in iteration i.                     *)
(***************************************************************************)
generateConversationMessages(conversation, n, offsets, senders) ==
  LET timestamps == generateDistributedTimestamps(
                      conversation.created_at, conversation.last_message_at,
                      n, offsets)
  IN SortMessages(
       [k \in 1..n |->
          generateMessage(conversation.id,
                          IF senders[k - 1] = "seller"
                            THEN conversation.seller_id
                            ELSE conversation.buyer_id,
                          senders[k - 1],
                          timestamps[k])])

\* a caller generates one conversation, between seller 1 and buyer 2
generateConversationCall ==
  /\ gpc = "idle"
  /\ \E d \in ConversationDates :
       conversations' =
         <<generateConversation(1, 1, 2, "whatsapp", d[1], d[2])>>
  /\ gparams' = [op |-> "generateConversation"]
  /\ gpc' = "conversation"
  /\ UNCHANGED <<faker, sellerIds, buyers, buyerIds, gs,
                 uniqueConversations, gc, messages>>
  /\ UNCHANGED OthersThanG

\* and then its messages
generateConversationMessagesCall ==
  /\ gpc = "conversation"
  /\ \E n \in 0..MaxMessages :
       /\ gparams' = [op |-> "generateConversationMessages",
                      messagesPerConversation |-> n]
       /\ \E offsets \in Offsets(conversations[1].created_at,
                                 conversations[1].last_message_at, n),
             senders \in [0..(n - 1) -> faker.senders] :
            messages' = generateConversationMessages(
                          conversations[1], n, offsets, senders)
  /\ gpc' = "messages"
  /\ UNCHANGED <<faker, sellerIds, buyers, buyerIds, gs,
                 uniqueConversations, conversations, gc>>
  /\ UNCHANGED OthersThanG

(***************************************************************************)
(* generateConversations(sellerIds, buyerIds, conversationsPerSeller) and  *)
(* generateRealisticConversationBatch(sellerCount, buyerCount, options).   *)
(***************************************************************************)
\* activePlatformDistribution.whatsapp, in tenths
Shares == {0, 3, 7, 10}

\* the arrays of ids a caller can pass, repeated ids among them
IdLists(max) == UNION {[1..n -> 1..max] : n \in 0..max}

\* the outcomes of faker.helpers.shuffle([...ids])
shuffle(ids) ==
  {[k \in DOMAIN ids |-> ids[p[k]]] : p \in Permutations(DOMAIN ids)}

\* Array.from({ length: count }, ...) has no element when count is negative
generateBuyers(count, platform, firstId) ==
  [k \in 1..Max(count, 0) |-> [id |-> firstId + k - 1, platform |-> platform]]

\* both platforms get the floor of their share
platformCountsBothFloored(buyerCount, share) ==
  [whatsapp |-> (buyerCount * share) \div 10,
   instagram |-> (buyerCount * (10 - share)) \div 10]

\* whatsappCount = Math.floor(buyerCount * share) and instagramCount, the rest
platformCounts(buyerCount, share) ==
  [whatsapp |-> (buyerCount * share) \div 10,
   instagram |-> buyerCount - (buyerCount * share) \div 10]

\* the loop over the shuffled buyers, leaving it one conversation late
RECURSIVE forEachBuyerBreakingLate(_, _, _, _, _)
forEachBuyerBreakingLate(sellerId, shuffledBuyers, conversationsPerSeller, dates, acc) ==
  IF shuffledBuyers = <<>> \/ acc.conversationsCreated > conversationsPerSeller
    THEN acc
    ELSE
      LET conversation ==
            generateConversation(Len(acc.conversations) + 1, sellerId,
                                 Head(shuffledBuyers), "whatsapp",
                                 Head(dates)[1], Head(dates)[2])
          uniqueKey == <<sellerId, Head(shuffledBuyers), conversation.platform>>
      IN forEachBuyerBreakingLate(
           sellerId, Tail(shuffledBuyers), conversationsPerSeller, Tail(dates),
           IF uniqueKey \notin acc.uniqueConversations
             THEN [uniqueConversations |-> acc.uniqueConversations \cup {uniqueKey},
                   conversations |-> Append(acc.conversations, conversation),
                   conversationsCreated |-> acc.conversationsCreated + 1]
             ELSE acc)

(***************************************************************************)
(* The loop over the shuffled buyers of one seller.  acc holds             *)
(* uniqueConversations, conversations and conversationsCreated; dates[k]   *)
(* are the dates drawn for the k-th buyer of the shuffled array.           *)
(***************************************************************************)
RECURSIVE forEachBuyer(_, _, _, _, _)
forEachBuyer(sellerId, shuffledBuyers, conversationsPerSeller, dates, acc) ==
  IF shuffledBuyers = <<>> \/ acc.conversationsCreated >= conversationsPerSeller
    THEN acc
    ELSE
      LET conversation ==
            generateConversation(Len(acc.conversations) + 1, sellerId,
                                 Head(shuffledBuyers), "whatsapp",
                                 Head(dates)[1], Head(dates)[2])
          uniqueKey == <<sellerId, Head(shuffledBuyers), conversation.platform>>
      IN forEachBuyer(
           sellerId, Tail(shuffledBuyers), conversationsPerSeller, Tail(dates),
           IF uniqueKey \notin acc.uniqueConversations
             THEN [uniqueConversations |-> acc.uniqueConversations \cup {uniqueKey},
                   conversations |-> Append(acc.conversations, conversation),
                   conversationsCreated |-> acc.conversationsCreated + 1]
             ELSE acc)

\* a caller passes arrays of ids of its own to generateConversations
generateConversationsCall ==
  /\ gpc = "idle"
  /\ \E sids \in IdLists(MaxSellers), bids \in IdLists(MaxBuyers),
        perSeller \in 0..MaxPerSeller :
       /\ sellerIds' = sids
       /\ buyerIds' = bids
       /\ gparams' = [op |-> "generateConversations",
                      conversationsPerSeller |-> perSeller]
  /\ gs' = 1
  /\ gpc' = "conversations"
  /\ UNCHANGED <<faker, buyers, uniqueConversations, conversations, gc, messages>>
  /\ UNCHANGED OthersThanG

\* generateRealisticConversationBatch up to its call of generateConversations
generateRealisticConversationBatchBegin ==
  /\ gpc = "idle"
  /\ \E sellerCount \in 0..MaxSellers, buyerCount \in 0..MaxBuyers,
        perSeller \in 0..MaxPerSeller, n \in 0..MaxMessages, share \in Shares :
       LET counts == platformCounts(buyerCount, share)
           made == generateBuyers(counts.whatsapp, "whatsapp", 1)
                     \o generateBuyers(counts.instagram, "instagram",
                                       Max(counts.whatsapp, 0) + 1)
       IN /\ gparams' = [op |-> "generateRealisticConversationBatch",
                         via |-> "caller",
                         requested |-> [sellers |-> <<sellerCount>>,
                                        buyers |-> <<buyerCount>>,
                                        conversationsPerSeller |-> <<perSeller>>,
                                        messagesPerConversation |-> <<n>>],
                         sellerCount |-> sellerCount,
                         buyerCount |-> buyerCount,
                         conversationsPerSeller |-> perSeller,
                         messagesPerConversation |-> n,
                         share |-> share]
          /\ sellerIds' = [k \in 1..sellerCount |-> k]
          /\ buyers' = made
          /\ buyerIds' = [k \in DOMAIN made |-> made[k].id]
  /\ gs' = 1
  /\ gpc' = "conversations"
  /\ UNCHANGED <<faker, uniqueConversations, conversations, gc, messages>>
  /\ UNCHANGED OthersThanG

(***************************************************************************)
(* generateBenchmarkScenario(scenario, options).  An option is kept as a   *)
(* list: empty when options lacks the key, else holding its value.  The    *)
(* four branches of the switch differ in their default numbers only, which *)
(* are kept here as the largest numbers of the model.                      *)
(***************************************************************************)
Option(S) == {<<>>} \cup {<<x>> : x \in S}

\* option || fallback
orDefault(option, fallback) ==
  IF option = <<>> \/ option[1] = 0 THEN fallback ELSE option[1]

\* { key: fallback, ...options } and the default of a destructured key
spreadOver(option, fallback) ==
  IF option = <<>> THEN fallback ELSE option[1]

generateBenchmarkScenario ==
  /\ gpc = "idle"
  /\ \E options \in [sellers : Option(0..MaxSellers),
                      buyers : Option(0..MaxBuyers),
                      conversationsPerSeller : Option(0..MaxPerSeller),
                      messagesPerConversation : Option(0..MaxMessages)] :
       LET sellerCount == orDefault(options.sellers, MaxSellers)
           buyerCount == orDefault(options.buyers, MaxBuyers)
           counts == platformCounts(buyerCount, 7)
           made == generateBuyers(counts.whatsapp, "whatsapp", 1)
                     \o generateBuyers(counts.instagram, "instagram",
                                       Max(counts.whatsapp, 0) + 1)
       IN /\ gparams' = [op |-> "generateRealisticConversationBatch",
                         via |-> "generateBenchmarkScenario",
                         requested |-> options,
                         sellerCount |-> sellerCount,
                         buyerCount |-> buyerCount,
                         conversationsPerSeller |->
                           spreadOver(options.conversationsPerSeller, MaxPerSeller),
                         messagesPerConversation |->
                           spreadOver(options.messagesPerConversation, MaxMessages),
                         share |-> 7]
          /\ sellerIds' = [k \in 1..sellerCount |-> k]
          /\ buyers' = made
          /\ buyerIds' = [k \in DOMAIN made |-> made[k].id]
  /\ gs' = 1
  /\ gpc' = "conversations"
  /\ UNCHANGED <<faker, uniqueConversations, conversations, gc, messages>>
  /\ UNCHANGED OthersThanG

\* one iteration of the for-of over sellerIds
generateConversationsForSeller ==
  /\ gpc = "conversations"
  /\ gs <= Len(sellerIds)
  /\ \E shuffledBuyers \in shuffle(buyerIds),
        dates \in [DOMAIN buyerIds -> ConversationDates] :
       LET acc == forEachBuyer(sellerIds[gs], shuffledBuyers,
                               gparams.conversationsPerSeller, dates,
                               [uniqueConversations |-> uniqueConversations,
                                conversations |-> conversations,
                                conversationsCreated |-> 0])
       IN /\ uniqueConversations' = acc.uniqueConversations
          /\ conversations' = acc.conversations
  /\ gs' = gs + 1
  /\ UNCHANGED <<gpc, faker, gparams, sellerIds, buyers, buyerIds, gc, messages>>
  /\ UNCHANGED OthersThanG

\* generateConversations returns, to its caller or into the batch
generateConversationsReturn ==
  /\ gpc = "conversations"
  /\ gs > Len(sellerIds)
  /\ gpc' = IF gparams.op = "generateRealisticConversationBatch"
              THEN "bulk" ELSE "done"
  /\ gc' = 1
  /\ UNCHANGED <<faker, gparams, sellerIds, buyers, buyerIds, gs,
                 uniqueConversations, conversations, messages>>
  /\ UNCHANGED OthersThanG

\* one iteration of the for-of of generateBulkMessages
generateBulkMessagesStep ==
  /\ gpc = "bulk"
  /\ gc <= Len(conversations)
  /\ \E offsets \in Offsets(conversations[gc].created_at,
                            conversations[gc].last_message_at,
                            gparams.messagesPerConversation),
        senders \in [0..(gparams.messagesPerConversation - 1) -> faker.senders] :
       messages' = messages \o generateConversationMessages(
                                 conversations[gc],
                                 gparams.messagesPerConversation,
                                 offsets, senders)
  /\ gc' = gc + 1
  /\ UNCHANGED <<gpc, faker, gparams, sellerIds, buyers, buyerIds, gs,
                 uniqueConversations, conversations>>
  /\ UNCHANGED OthersThanG

\* generateBulkMessages returns and the batch is handed over
generateRealisticConversationBatchEnd ==
  /\ gpc = "bulk"
  /\ gc > Len(conversations)
  /\ gpc' = "done"
  /\ UNCHANGED <<faker, gparams, sellerIds, buyers, buyerIds, gs,
                 uniqueConversations, conversations, gc, messages>>
  /\ UNCHANGED OthersThanG

\* the caller drops what it was given
generatorReturn ==
  /\ gpc \in {"messages", "done"}
  /\ gpc' = "idle"
  /\ gparams' = NoParams
  /\ sellerIds' = <<>>
  /\ buyers' = <<>>
  /\ buyerIds' = <<>>
  /\ gs' = 0
  /\ uniqueConversations' = {}
  /\ conversations' = <<>>
  /\ gc' = 0
  /\ messages' = <<>>
  /\ UNCHANGED faker
  /\ UNCHANGED OthersThanG

(***************************************************************************)
(* The summary.  A metric value is a number kept as a fraction, NaN or an  *)
(* infinity, as Div gives them.                                            *)
(***************************************************************************)
Num(n) == [kind |-> "num", num |-> n, den |-> 1]
NaN == [kind |-> "NaN"]
PositiveInfinity == [kind |-> "Infinity"]
NegativeInfinity == [kind |-> "-Infinity"]

\* a < b on such values: false whenever one of them is NaN
Less(a, b) ==
  CASE a.kind = "NaN" \/ b.kind = "NaN" -> FALSE
    [] a.kind = "-Infinity" -> b.kind # "-Infinity"
    [] a.kind = "Infinity" -> FALSE
    [] OTHER -> CASE b.kind = "Infinity" -> TRUE
                  [] b.kind = "-Infinity" -> FALSE
                  [] OTHER -> a.num * b.den < b.num * a.den

\* values.reduce((sum, t) => sum + t, 0) / values.length, the values being
\* whole numbers, NaN or Infinity
RECURSIVE reduceSum(_, _)
reduceSum(values, sum) ==
  IF values = <<>> THEN sum
  ELSE reduceSum(Tail(values),
         CASE sum.kind = "NaN" \/ Head(values).kind = "NaN" -> NaN
           [] sum.kind = "Infinity" \/ Head(values).kind = "Infinity" ->
                PositiveInfinity
           [] OTHER -> Num(sum.num + Head(values).num))

mean(values) ==
  LET sum == reduceSum(values, Num(0))
  IN IF sum.kind = "num" THEN Div(sum.num, Len(values)) ELSE sum

\* the value findBestPerformer gives one backend of the category
valueOf(category, results) ==
  IF category \in {"writes", "reads"} THEN mean(results) ELSE results

\* a backend that equals the best so far replaces it
replacesBestOnTie(value, bestValue, lowerIsBetter) ==
  IF value.kind = "NaN" THEN FALSE
  ELSE IF lowerIsBetter THEN ~Less(bestValue, value) ELSE ~Less(value, bestValue)

\* (lowerIsBetter && value < bestValue) || (!lowerIsBetter && value > bestValue)
replacesBest(value, bestValue, lowerIsBetter) ==
  IF lowerIsBetter THEN Less(value, bestValue) ELSE Less(bestValue, value)

\* the for-of over Object.entries(this.results[category])
RECURSIVE forEachEntry(_, _, _)
forEachEntry(entries, call, best) ==
  IF entries = <<>> THEN best
  ELSE LET value == valueOf(call.category, Head(entries).results)
       IN forEachEntry(Tail(entries), call,
            IF replacesBest(value, best.value, call.lowerIsBetter)
              THEN [best EXCEPT !.database = Head(entries).dbName,
                                !.value = value]
              ELSE best)

\* findBestPerformer(category, metric, lowerIsBetter = false)
findBestPerformer(results, call) ==
  IF ~results.present THEN [kind |-> "null"]
  ELSE forEachEntry(results.entries, call,
         [kind |-> "object", database |-> "null",
          value |-> IF call.lowerIsBetter THEN PositiveInfinity
                                          ELSE NegativeInfinity])

\* the three calls of generateSummary
SummaryCalls ==
  {[category |-> "writes", metric |-> "throughput", lowerIsBetter |-> FALSE],
   [category |-> "reads", metric |-> "avgTime", lowerIsBetter |-> TRUE],
   [category |-> "concurrency", metric |-> "throughput", lowerIsBetter |-> FALSE]}

(***************************************************************************)
(* What a backend's results of a category can hold, as the values of the   *)
(* metric: for writes the throughput of each entity type (two of the four  *)
(* are kept), a number or Infinity when no chunk was written; for reads    *)
(* the avgTime of each operation that has statistics (none to two); for    *)
(* concurrency the throughput.                                             *)
(***************************************************************************)
MetricsOf(category) ==
  CASE category = "writes" ->
         [1..2 -> {Num(1), Num(2), PositiveInfinity}]
    [] category = "reads" ->
         UNION {[1..n -> {Num(1), Num(2)}] : n \in 0..2}
    [] OTHER -> {Num(0), Num(1), Num(2)}

\* this.results[category]: missing, or with an entry for each client
AbsentResults == [present |-> FALSE, entries |-> <<>>]

ResultsOf(category) ==
  UNION {{[present |-> TRUE,
           entries |-> [k \in 1..n |-> [dbName |-> dbs[k], results |-> m[k]]]] :
            dbs \in DistinctSeqs(clientMap, n),
            m \in [1..n -> MetricsOf(category)]} : n \in 0..MaxDatabases}

SIdle ==
  /\ spc = "idle"
  /\ winner = [kind |-> "none"]

SInit ==
  /\ SIdle
  /\ scall \in SummaryCalls
  /\ sresults \in ResultsOf(scall.category) \cup {AbsentResults}

SFrozen ==
  /\ SIdle
  /\ scall = [category |-> "none"]
  /\ sresults = AbsentResults

\* generateSummary makes the call
findBestPerformerCall ==
  /\ spc = "idle"
  /\ winner' = findBestPerformer(sresults, scall)
  /\ spc' = "done"
  /\ UNCHANGED <<scall, sresults>>
  /\ UNCHANGED OthersThanS

(***************************************************************************)
(* The isolated benchmark command.  cli.js registers two actions under the *)
(* name benchmark-isolated: the first starts, benchmarks and stops one     *)
(* database per turn of its loop, the second hands the whole list to       *)
(* startDatabases(databases, 'isolated').  Only the database services are  *)
(* followed; what a docker command does to them is the effect of           *)
(* docker-compose, and a command that fails may have done part of it.      *)
(***************************************************************************)
\* const validDatabases / Object.keys(this.databaseServices)
validDatabases == {"scylladb", "clickhouse", "timescaledb", "cockroachdb"}

\* this.supportingServices
supportingServices == {"redis", "prometheus", "grafana"}

\* the docker commands the orchestrator issues
Down == [name |-> "down", services |-> {}]
UpD(services) == [name |-> "up", services |-> services]
Stop(services) == [name |-> "stop", services |-> services]
Prune == [name |-> "prune", services |-> {}]

\* executeCommand: the ways one command can end, and the containers up after
executeCommand(command, up) ==
  LET named == command.services \cap validDatabases IN
  CASE command.name = "down" ->
         {[ok |-> TRUE, running |-> {}]}
           \cup {[ok |-> FALSE, running |-> r] : r \in SUBSET up}
    [] command.name = "up" ->
         {[ok |-> TRUE, running |-> up \cup named]}
           \cup {[ok |-> FALSE, running |-> up \cup s] : s \in SUBSET named}
    [] command.name = "stop" ->
         {[ok |-> TRUE, running |-> up \ named]}
           \cup {[ok |-> FALSE, running |-> up \ s] : s \in SUBSET named}
    [] OTHER ->
         {[ok |-> TRUE, running |-> up], [ok |-> FALSE, running |-> up]}

\* awaited commands one after another: the first that fails throws
RECURSIVE executeCommands(_, _, _)
executeCommands(commands, up, log) ==
  IF commands = <<>>
    THEN {[ok |-> TRUE, running |-> up, log |-> log, error |-> "none"]}
    ELSE UNION {
           IF o.ok
             THEN executeCommands(Tail(commands), o.running,
                    Append(log, [command |-> Head(commands), ok |-> TRUE]))
             ELSE {[ok |-> FALSE, running |-> o.running,
                    log |-> Append(log, [command |-> Head(commands),
                                         ok |-> FALSE]),
                    error |-> "Command failed"]} :
           o \in executeCommand(Head(commands), up)}

\* throw new Error(`Invalid database...`) with no command run
Thrown(up, log) ==
  {[ok |-> FALSE, running |-> up, log |-> log, error |-> "Invalid database"]}

\* the containers are taken down before the name is looked at
startIsolatedDatabaseStoppingFirst(database, up, log) ==
  UNION {IF o.ok /\ database \notin validDatabases
           THEN Thrown(o.running, o.log)
           ELSE IF o.ok
                  THEN executeCommands(<<UpD({database})>>, o.running, o.log)
                  ELSE {o} :
         o \in executeCommands(<<Down>>, up, log)}

\* startIsolatedDatabase(database); waitForDatabase catches what its probes
\* throw and returns
startIsolatedDatabase(database, up, log) ==
  IF database \notin validDatabases
    THEN Thrown(up, log)
    ELSE executeCommands(<<Down, UpD({database})>>, up, log)

\* stopIsolatedDatabase(database)
stopIsolatedDatabase(database, up, log) ==
  executeCommands(<<Stop({database})>>, up, log)

\* cleanupAllContainers()
cleanupAllContainers(up, log) ==
  executeCommands(<<Down, Prune>>, up, log)

Range(q) == {q[k] : k \in DOMAIN q}

\* startIsolatedDatabases(databases) of the orchestrator with modes
startIsolatedDatabases(dbs) ==
  <<Down, UpD(supportingServices), UpD(Range(dbs))>>

\* Object.keys(this.databaseServices)
allDatabases == <<"scylladb", "clickhouse", "timescaledb", "cockroachdb">>

\* startDatabases(databases, 'isolated'): the names are checked first and an
\* empty list stands for every database; after the containers are started,
\* waitForDatabases may still throw
startDatabases(dbs, up, log) ==
  IF \E k \in DOMAIN dbs : dbs[k] \notin validDatabases
    THEN Thrown(up, log)
    ELSE LET targetDatabases == IF Len(dbs) = 0 THEN allDatabases ELSE dbs
             started ==
               executeCommands(startIsolatedDatabases(targetDatabases),
                               up, log)
         IN  started \cup {[o EXCEPT !.ok = FALSE,
                                      !.error = "failed to start"] :
                             o \in {t \in started : t.ok}}

\* the lists --databases can name
DatabaseLists ==
  UNION {[1..n -> RequestableNames] : n \in 1..MaxDatabases}

\* the two actions registered as benchmark-isolated, and their options
IsolatedCommands ==
  [version : {"first", "second"}, databases : DatabaseLists,
   skipDocker : BOOLEAN]

NoIsolatedResults == [db \in {} |-> "none"]

DIdle ==
  /\ dpc = "idle"
  /\ dk = 0
  /\ target = "none"
  /\ dlog = <<>>
  /\ isolatedResults = NoIsolatedResults
  /\ derror = "none"

\* containers of an earlier command may still be up
DInit ==
  /\ DIdle
  /\ dcommand \in IsolatedCommands
  /\ running \in SUBSET validDatabases

DFrozen ==
  /\ DIdle
  /\ dcommand = [version |-> "none"]
  /\ running = {}

\* the action is entered; the second action's parseDatabaseList exits on a
\* name it does not know
benchmarkIsolatedBegin ==
  /\ dpc = "idle"
  /\ dpc' = IF dcommand.version = "first" THEN "loop"
            ELSE IF Range(dcommand.databases) \subseteq validDatabases
                   THEN "start"
                   ELSE "exited"
  /\ dk' = IF dcommand.version = "first" THEN 1 ELSE 0
  /\ UNCHANGED <<dcommand, running, target, dlog, isolatedResults>>
  /\ UNCHANGED derror
  /\ UNCHANGED OthersThanD

\* first action: if (!options.skipDocker) await startIsolatedDatabase(database)
startIsolatedDatabaseCall ==
  /\ dpc = "loop"
  /\ dk \in DOMAIN dcommand.databases
  /\ IF dcommand.skipDocker
       THEN /\ dpc' = "benchmark"
            /\ UNCHANGED <<running, dlog>>
       ELSE \E o \in startIsolatedDatabase(dcommand.databases[dk],
                                           running, dlog) :
              /\ running' = o.running
              /\ dlog' = o.log
              /\ dpc' = IF o.ok THEN "benchmark" ELSE "catch"
  /\ UNCHANGED <<dcommand, dk, target, isolatedResults>>
  /\ UNCHANGED derror
  /\ UNCHANGED OthersThanD

\* first action: runner.runFullBenchmark(...) is called on [database]
runFullBenchmarkCall ==
  /\ dpc = "benchmark"
  /\ target' = dcommand.databases[dk]
  /\ dpc' = "benchmarking"
  /\ UNCHANGED <<dcommand, dk, running, dlog, isolatedResults>>
  /\ UNCHANGED derror
  /\ UNCHANGED OthersThanD

\* the inner try block of the first action is missing
runFullBenchmarkSettlesUncaught ==
  /\ dpc = "benchmarking"
  /\ \E outcome \in {"report", "error"} :
       /\ isolatedResults' =
            IF outcome = "report"
              THEN [db \in DOMAIN isolatedResults \cup {target} |->
                      IF db = target THEN outcome ELSE isolatedResults[db]]
              ELSE isolatedResults
       /\ dpc' = IF outcome = "report" THEN "stop" ELSE "catch"
  /\ target' = "none"
  /\ UNCHANGED <<dcommand, dk, running, dlog>>
  /\ UNCHANGED derror
  /\ UNCHANGED OthersThanD

\* first action: the run returns its report or throws, and either is recorded
runFullBenchmarkSettles ==
  /\ dpc = "benchmarking"
  /\ \E outcome \in {"report", "error"} :
       isolatedResults' =
         [db \in DOMAIN isolatedResults \cup {target} |->
            IF db = target THEN outcome ELSE isolatedResults[db]]
  /\ target' = "none"
  /\ dpc' = "stop"
  /\ UNCHANGED <<dcommand, dk, running, dlog>>
  /\ UNCHANGED derror
  /\ UNCHANGED OthersThanD

\* first action: if (!options.skipDocker) await stopIsolatedDatabase(database)
stopIsolatedDatabaseCall ==
  /\ dpc = "stop"
  /\ IF dcommand.skipDocker
       THEN /\ dpc' = "loop"
            /\ dk' = dk + 1
            /\ UNCHANGED <<running, dlog>>
       ELSE \E o \in stopIsolatedDatabase(dcommand.databases[dk],
                                          running, dlog) :
              /\ running' = o.running
              /\ dlog' = o.log
              /\ dpc' = IF o.ok THEN "loop" ELSE "catch"
              /\ dk' = IF o.ok THEN dk + 1 ELSE dk
  /\ UNCHANGED <<dcommand, target, isolatedResults>>
  /\ UNCHANGED derror
  /\ UNCHANGED OthersThanD

\* first action: after the loop the report is saved, which may throw, and
\* the summary is printed
benchmarkIsolatedEnd ==
  /\ dpc = "loop"
  /\ dk \notin DOMAIN dcommand.databases
  /\ dpc' \in {"done", "catch"}
  /\ UNCHANGED <<dcommand, dk, running, target, dlog, isolatedResults>>
  /\ UNCHANGED derror
  /\ UNCHANGED OthersThanD

\* first action: catch (error) { await cleanupAllContainers(); process.exit(1) }
benchmarkIsolatedCatch ==
  /\ dpc = "catch"
  /\ \E o \in cleanupAllContainers(running, dlog) :
       /\ running' = o.running
       /\ dlog' = o.log
       /\ dpc' = IF o.ok THEN "exited" ELSE "rejected"
  /\ UNCHANGED <<dcommand, dk, target, isolatedResults>>
  /\ UNCHANGED derror
  /\ UNCHANGED OthersThanD

\* second action: if (!options.skipDocker) await startDatabases(databases,
\* 'isolated'); what it throws ends the process
startDatabasesCall ==
  /\ dpc = "start"
  /\ IF dcommand.skipDocker
       THEN /\ dpc' = "benchmarks"
            /\ UNCHANGED <<running, dlog>>
       ELSE \E o \in startDatabases(dcommand.databases, running, dlog) :
              /\ running' = o.running
              /\ dlog' = o.log
              /\ dpc' = IF o.ok THEN "benchmarks" ELSE "exited"
  /\ UNCHANGED <<dcommand, dk, target, isolatedResults>>
  /\ UNCHANGED derror
  /\ UNCHANGED OthersThanD

\* second action: await runner.runIsolatedBenchmarks() returns or throws
runIsolatedBenchmarksCall ==
  /\ dpc = "benchmarks"
  /\ dpc' \in {"done", "exited"}
  /\ UNCHANGED <<dcommand, dk, running, target, dlog, isolatedResults>>
  /\ UNCHANGED derror
  /\ UNCHANGED OthersThanD

\* the calls a user of the orchestrator can make to start databases
StartCalls ==
  [version : {"startDatabases"}, databases : DatabaseLists \cup {<<>>},
   skipDocker : {FALSE}]
    \cup [version : {"startIsolatedDatabase"},
          databases : [1..1 -> RequestableNames], skipDocker : {FALSE}]

DInitStart ==
  /\ DIdle
  /\ dcommand \in StartCalls
  /\ running \in SUBSET validDatabases

\* one call on an orchestrator, from whatever caller
Returns(o) ==
  /\ running' = o.running
  /\ dlog' = o.log
  /\ derror' = o.error
  /\ dpc' = IF o.ok THEN "returned" ELSE "thrown"

\* await dockerOrchestrator.startDatabases(databases, 'isolated')
startDatabasesDirect ==
  /\ dpc = "idle"
  /\ dcommand.version = "startDatabases"
  /\ \E o \in startDatabases(dcommand.databases, running, dlog) : Returns(o)
  /\ UNCHANGED <<dcommand, dk, target, isolatedResults>>
  /\ UNCHANGED OthersThanD

\* await dockerOrchestrator.startIsolatedDatabase(database)
startIsolatedDatabaseDirect ==
  /\ dpc = "idle"
  /\ dcommand.version = "startIsolatedDatabase"
  /\ \E o \in startIsolatedDatabase(dcommand.databases[1], running, dlog) :
       Returns(o)
  /\ UNCHANGED <<dcommand, dk, target, isolatedResults>>
  /\ UNCHANGED OthersThanD

(***************************************************************************)
(* waitForDatabase.  The orchestrator with modes (both unnamed versions)   *)
(* probes with docker-compose ps, returns true at the first probe showing  *)
(* the container up, rethrows what the last attempt's probe threw and      *)
(* throws after the loop; the orchestrator of src/utils probes with        *)
(* docker-compose exec, swallows what a probe throws and returns after the *)
(* loop.  How a probe ends is docker's affair.                             *)
(***************************************************************************)
maxAttemptsUnnamed == 60
maxAttemptsUtils == 30

maxAttempts(version) ==
  IF version = "utils" THEN maxAttemptsUtils ELSE maxAttemptsUnnamed

\* the loop goes one turn too far
loopContinuesOnePast(a, max) == a <= max + 1

\* for (let attempt = 1; attempt <= maxAttempts; attempt++)
loopContinues(a, max) == a <= max

QIdle ==
  /\ qpc = "idle"
  /\ attempt = 0
  /\ probes = 0
  /\ failures = 0
  /\ lastProbe = "none"

QInit ==
  /\ QIdle
  /\ qversion \in {"unnamed", "utils"}

QFrozen ==
  /\ QIdle
  /\ qversion = "none"

\* the loop's test with attempt = a: another probe, or what follows the loop
Iterate(a) ==
  /\ attempt' = a
  /\ IF loopContinues(a, maxAttempts(qversion))
       THEN /\ qpc' = "probing"
            /\ probes' = probes + 1
       ELSE /\ qpc' = IF qversion = "utils" THEN "returned" ELSE "thrown"
            /\ UNCHANGED probes

waitForDatabaseCall ==
  /\ qpc = "idle"
  /\ Iterate(1)
  /\ UNCHANGED <<qversion, failures, lastProbe>>
  /\ UNCHANGED OthersThanQ

\* await this.executeCommand(probe) resolves or rejects, up to the next await
probeSettles ==
  /\ qpc = "probing"
  /\ \E outcome \in {"ready", "notready", "throws"} :
       /\ lastProbe' = outcome
       /\ failures' = IF outcome = "throws" THEN failures + 1 ELSE failures
       /\ CASE outcome = "ready" ->
                 /\ qpc' = "returned"
                 /\ UNCHANGED <<attempt, probes>>
            [] outcome = "throws" /\ qversion = "unnamed" ->
                 /\ qpc' = IF attempt = maxAttempts(qversion)
                             THEN "thrown" ELSE "waiting"
                 /\ UNCHANGED <<attempt, probes>>
            [] OTHER ->
                 IF attempt < maxAttempts(qversion)
                   THEN /\ qpc' = "waiting"
                        /\ UNCHANGED <<attempt, probes>>
                   ELSE Iterate(attempt + 1)
  /\ UNCHANGED qversion
  /\ UNCHANGED OthersThanQ

\* the delay is over: attempt++
delayOver ==
  /\ qpc = "waiting"
  /\ Iterate(attempt + 1)
  /\ UNCHANGED <<qversion, failures, lastProbe>>
  /\ UNCHANGED OthersThanQ

(***************************************************************************)
(* initializeDatabaseSchemas(databases) of the orchestrator with modes,    *)
(* called by startDatabases with names it has validated.  Whether a        *)
(* database accepts its schema is the database's affair.                   *)
(***************************************************************************)
maxRetries == 10

\* the catch block gives up one attempt too late
givesUpOnePast(a) == a = maxRetries + 1

\* if (attempt === maxRetries) ... return false
givesUp(a) == a = maxRetries

SchemaLists ==
  UNION {[1..n -> validDatabases] : n \in 1..MaxDatabases}

IIdle ==
  /\ ipc = "idle"
  /\ ik = 0
  /\ retry = 0
  /\ tries = 0
  /\ retryResult = "none"
  /\ ilog = <<>>

IInit ==
  /\ IIdle
  /\ idatabases \in SchemaLists

IFrozen ==
  /\ IIdle
  /\ idatabases = <<>>

\* the for-of loop reaches position k: ScyllaDB goes to
\* initializeScyllaDBWithRetry, whose first attempt starts; any other
\* database gets its try block
Schema(k) ==
  /\ ik' = k
  /\ IF k > Len(idatabases)
       THEN /\ ipc' = "returned"
            /\ UNCHANGED <<retry, tries>>
       ELSE IF idatabases[k] = "scylladb"
              THEN /\ ipc' = "retrying"
                   /\ retry' = 1
                   /\ tries' = 0
              ELSE /\ ipc' = "client"
                   /\ UNCHANGED <<retry, tries>>

initializeDatabaseSchemasCall ==
  /\ ipc = "idle"
  /\ Schema(1)
  /\ UNCHANGED <<idatabases, retryResult, ilog>>
  /\ UNCHANGED OthersThanI

\* try { connect; initializeSchema; disconnect } catch { log }: the loop
\* goes on either way
clientSchemaSettles ==
  /\ ipc = "client"
  /\ \E ok \in BOOLEAN :
       ilog' = Append(ilog, [db |-> idatabases[ik], ok |-> ok])
  /\ Schema(ik + 1)
  /\ UNCHANGED <<idatabases, retryResult>>
  /\ UNCHANGED OthersThanI

\* initializeScyllaDBWithRetry: await client.initializeSchema() resolves
\* (return true) or rejects (return false at the last attempt, else wait)
scyllaSchemaSettles ==
  /\ ipc = "retrying"
  /\ tries' = tries + 1
  /\ \E ok \in BOOLEAN :
       IF ok \/ givesUp(retry)
         THEN /\ retryResult' = IF ok THEN "true" ELSE "false"
              /\ ilog' = Append(ilog, [db |-> idatabases[ik], ok |-> ok])
              /\ ipc' = "retried"
         ELSE /\ ipc' = "retryWaiting"
              /\ UNCHANGED <<retryResult, ilog>>
  /\ UNCHANGED <<idatabases, ik, retry>>
  /\ UNCHANGED OthersThanI

\* the retry delay is over: attempt++; past maxRetries the loop and the
\* function end without a return statement
retryDelayOver ==
  /\ ipc = "retryWaiting"
  /\ retry' = retry + 1
  /\ IF retry + 1 <= maxRetries
       THEN /\ ipc' = "retrying"
            /\ UNCHANGED <<retryResult, ilog>>
       ELSE /\ retryResult' = "undefined"
            /\ ilog' = Append(ilog, [db |-> idatabases[ik], ok |-> FALSE])
            /\ ipc' = "retried"
  /\ UNCHANGED <<idatabases, ik, tries>>
  /\ UNCHANGED OthersThanI

\* await this.initializeScyllaDBWithRetry() is over; continue
initializeScyllaDBWithRetryReturns ==
  /\ ipc = "retried"
  /\ Schema(ik + 1)
  /\ UNCHANGED <<idatabases, retryResult, ilog>>
  /\ UNCHANGED OthersThanI

(***************************************************************************)
(* One backend adapter.  connect() makes a new driver object and keeps it  *)
(* in this.client (ScyllaDB, ClickHouse) or this.pool (TimescaleDB,        *)
(* CockroachDB) before the driver connects; disconnect() closes the driver *)
(* behind the handle.  Whether a driver call resolves or rejects is the    *)
(* driver's affair.                                                        *)
(***************************************************************************)
MaxCalls == 3

\* the adapters whose disconnect() wraps the close in try/catch and sets
\* this.pool = null
ClearsHandle == {"timescaledb", "cockroachdb"}

AIdle ==
  /\ handle = "null"
  /\ driver = "none"
  /\ isConnected = FALSE
  /\ closes = 0
  /\ alog = <<>>

\* constructor(): this.client = null / this.pool = null; isConnected = false
AInit ==
  /\ AIdle
  /\ adapter \in clientMap

AFrozen ==
  /\ AIdle
  /\ adapter = "none"

\* what a call leaves in the log
Called(method, ok, objectCloses, connectedAfter) ==
  [method |-> method, ok |-> ok, closes |-> objectCloses,
   isConnected |-> connectedAfter]

\* connect(): the handle is set before the driver connects, and stays set
\* when the driver's connect rejects and the adapter rethrows
connect ==
  /\ Len(alog) < MaxCalls
  /\ handle' = "object"
  /\ closes' = 0
  /\ \E resolves \in BOOLEAN :
       /\ driver' = IF resolves THEN "connected" ELSE "unconnected"
       /\ isConnected' = IF resolves THEN TRUE ELSE isConnected
       /\ alog' = Append(alog, Called("connect", resolves, 0, isConnected'))
  /\ UNCHANGED adapter
  /\ UNCHANGED OthersThanA

\* disconnect(): if (this.client) { await this.client.shutdown() ... } and
\* if (this.pool) { try { await this.pool.end(); this.pool = null ... }
\* catch { this.pool = null ... } }
disconnect ==
  /\ Len(alog) < MaxCalls
  /\ IF handle = "null"
       THEN /\ alog' = Append(alog, Called("disconnect", TRUE, closes,
                                           isConnected))
            /\ UNCHANGED <<handle, driver, isConnected, closes>>
       ELSE /\ closes' = closes + 1
            /\ driver' = "closed"
            /\ \E resolves \in BOOLEAN :
                 IF adapter \in ClearsHandle
                   THEN /\ handle' = "null"
                        /\ isConnected' = FALSE
                        /\ alog' = Append(alog,
                             Called("disconnect", TRUE, closes', FALSE))
                   ELSE /\ handle' = handle
                        /\ isConnected' = IF resolves THEN FALSE
                                          ELSE isConnected
                        /\ alog' = Append(alog,
                             Called("disconnect", resolves, closes',
                                    isConnected'))
  /\ UNCHANGED adapter
  /\ UNCHANGED OthersThanA

RFrozen == RIdle /\ warmupRuns = 0 /\ benchmarkRuns = 0
WFrozen == WIdle /\ batchSize = 1
CFrozen == CIdle
GFrozen == GIdle /\ faker = [span |-> 0, senders |-> senderTypes]
FFrozen ==
  /\ fpc = "idle"
  /\ databases = <<>>
  /\ clients = <<>>
  /\ connection = EmptyObject
  /\ fdb = 0
  /\ fresults = EmptyObject
  /\ fissued = <<>>
  /\ fthrown = NoError
  /\ disconnected = {}
  /\ report = NoReport

(***************************************************************************)
(* The specifications: one per component.                                  *)
(***************************************************************************)
InitWrite == WInit /\ RFrozen /\ CFrozen /\ FFrozen /\ GFrozen /\ SFrozen /\ DFrozen /\ AFrozen
    /\ QFrozen /\ IFrozen
NextWrite ==
  \/ benchmarkEntityWritesBegin
  \/ writeBatch
  \/ benchmarkEntityWritesEnd
  \/ benchmarkEntityWritesReturn
SpecWrite == InitWrite /\ [][NextWrite]_vars

InitRead == RInit /\ WFrozen /\ CFrozen /\ FFrozen /\ GFrozen /\ SFrozen /\ DFrozen /\ AFrozen
    /\ QFrozen /\ IFrozen
NextRead ==
  \/ runReadBenchmarksBegin
  \/ warmupRun
  \/ warmupEnd
  \/ measureRun
  \/ measureEnd
  \/ calculateReadStatistics
  \/ runReadBenchmarksReturn
SpecRead == InitRead /\ [][NextRead]_vars

InitConcurrency == CIdle /\ WFrozen /\ RFrozen /\ FFrozen /\ GFrozen /\ SFrozen /\ DFrozen /\ AFrozen
    /\ QFrozen /\ IFrozen
NextConcurrency ==
  \/ runConcurrencyTestBegin
  \/ \E k \in DOMAIN users : operationSettles(k)
  \/ aggregateResults
  \/ runConcurrencyTestReturn
SpecConcurrency == InitConcurrency /\ [][NextConcurrency]_vars

InitFull == FInit /\ WFrozen /\ RFrozen /\ CFrozen /\ GFrozen /\ SFrozen /\ DFrozen /\ AFrozen
    /\ QFrozen /\ IFrozen
NextFull ==
  \/ runFullBenchmarkBegin
  \/ \E c \in ClientSet : connectSettles(c)
  \/ initializeRejects
  \/ initializeResolves
  \/ benchmarkWrites
  \/ benchmarkWritesEnd
  \/ benchmarkReads
  \/ benchmarkReadsEnd
  \/ benchmarkConcurrency
  \/ benchmarkConcurrencyEnd
  \/ phaseThrows
  \/ generateReport
  \/ cleanup
SpecFull == InitFull /\ [][NextFull]_vars

\* one conversation and its messages, the dates drawn from the whole window
InitMessages ==
  /\ GIdle
  /\ \E span \in 0..MaxSpan : faker = [span |-> span, senders |-> senderTypes]
  /\ WFrozen /\ RFrozen /\ CFrozen /\ FFrozen /\ SFrozen /\ DFrozen /\ AFrozen
    /\ QFrozen /\ IFrozen
NextMessages ==
  \/ generateConversationCall
  \/ generateConversationMessagesCall
  \/ generatorReturn
SpecMessages == InitMessages /\ [][NextMessages]_vars

\* whole scenarios; each run draws one date and one sender type throughout,
\* which leaves room for the sizes of the scenario to vary
InitScenario ==
  /\ GIdle
  /\ \E who \in senderTypes : faker = [span |-> 0, senders |-> {who}]
  /\ WFrozen /\ RFrozen /\ CFrozen /\ FFrozen /\ SFrozen /\ DFrozen /\ AFrozen
    /\ QFrozen /\ IFrozen
NextScenario ==
  \/ generateConversationsCall
  \/ generateRealisticConversationBatchBegin
  \/ generateBenchmarkScenario
  \/ generateConversationsForSeller
  \/ generateConversationsReturn
  \/ generateBulkMessagesStep
  \/ generateRealisticConversationBatchEnd
  \/ generatorReturn
SpecScenario == InitScenario /\ [][NextScenario]_vars

\* one call of findBestPerformer on the results of a category
InitSummary ==
  SInit /\ WFrozen /\ RFrozen /\ CFrozen /\ FFrozen /\ GFrozen /\ DFrozen /\ AFrozen
    /\ QFrozen /\ IFrozen
NextSummary ==
  \/ findBestPerformerCall
SpecSummary == InitSummary /\ [][NextSummary]_vars

\* one run of a benchmark-isolated action
InitIsolated ==
  DInit /\ WFrozen /\ RFrozen /\ CFrozen /\ FFrozen /\ GFrozen /\ SFrozen
    /\ AFrozen
    /\ QFrozen /\ IFrozen
NextIsolated ==
  \/ benchmarkIsolatedBegin
  \/ startIsolatedDatabaseCall
  \/ runFullBenchmarkCall
  \/ runFullBenchmarkSettles
  \/ stopIsolatedDatabaseCall
  \/ benchmarkIsolatedEnd
  \/ benchmarkIsolatedCatch
  \/ startDatabasesCall
  \/ runIsolatedBenchmarksCall
SpecIsolated == InitIsolated /\ [][NextIsolated]_vars

\* one call that starts databases
InitStart ==
  DInitStart /\ WFrozen /\ RFrozen /\ CFrozen /\ FFrozen /\ GFrozen /\ SFrozen
    /\ AFrozen
    /\ QFrozen /\ IFrozen
NextStart ==
  \/ startDatabasesDirect
  \/ startIsolatedDatabaseDirect
SpecStart == InitStart /\ [][NextStart]_vars

\* the calls made on one adapter object
InitAdapter ==
  AInit /\ WFrozen /\ RFrozen /\ CFrozen /\ FFrozen /\ GFrozen /\ SFrozen
    /\ DFrozen /\ QFrozen /\ IFrozen
NextAdapter ==
  \/ connect
  \/ disconnect
SpecAdapter == InitAdapter /\ [][NextAdapter]_vars

\* one call of waitForDatabase; a probe and a delay come to an end
InitWait ==
  QInit /\ WFrozen /\ RFrozen /\ CFrozen /\ FFrozen /\ GFrozen /\ SFrozen
    /\ DFrozen /\ AFrozen
    /\ IFrozen
NextWait ==
  \/ waitForDatabaseCall
  \/ probeSettles
  \/ delayOver
SpecWait == InitWait /\ [][NextWait]_vars /\ WF_vars(NextWait)

\* one call of initializeDatabaseSchemas
InitSchemas ==
  IInit /\ WFrozen /\ RFrozen /\ CFrozen /\ FFrozen /\ GFrozen /\ SFrozen
    /\ DFrozen /\ AFrozen
    /\ QFrozen
NextSchemas ==
  \/ initializeDatabaseSchemasCall
  \/ clientSchemaSettles
  \/ scyllaSchemaSettles
  \/ retryDelayOver
  \/ initializeScyllaDBWithRetryReturns
SpecSchemas == InitSchemas /\ [][NextSchemas]_vars


\* the phases of one backend: the runner awaits the batch writer and the
\* read phase runner, so one of them is at work at a time; the writer has
\* chunks of one record, one call for each record of its data
InitSequential ==
  /\ WIdle /\ batchSize = 1
  /\ RInit
  /\ CFrozen /\ FFrozen /\ GFrozen /\ SFrozen /\ DFrozen /\ AFrozen
    /\ QFrozen /\ IFrozen
NextSequential ==
  \/ rpc = "idle" /\ benchmarkEntityWritesBegin
  \/ writeBatch
  \/ benchmarkEntityWritesEnd
  \/ benchmarkEntityWritesReturn
  \/ wpc = "idle" /\ runReadBenchmarksBegin
  \/ warmupRun
  \/ warmupEnd
  \/ measureRun
  \/ measureEnd
  \/ calculateReadStatistics
  \/ runReadBenchmarksReturn
SpecSequential == InitSequential /\ [][NextSequential]_vars

(***************************************************************************)
(* Properties of the read phase runner.                                    *)
(***************************************************************************)
\* C3: when the measurement loop of a read benchmark is over, its operation
\* has been invoked exactly warmupRuns + benchmarkRuns times whichever calls
\* failed, the sample set has at most benchmarkRuns entries, and it has
\* fewer exactly when a measurement call failed
C3_InvocationsAndSamples ==
  /\ rpc \in {"warmup", "measure", "stats"} =>
       /\ rcalls.warmup + rcalls.measure <= warmupRuns + benchmarkRuns
       /\ Len(rtimes) + rcalls.measureFailed = rcalls.measure
  /\ rpc = "stats" =>
       /\ rcalls.warmup = warmupRuns
       /\ rcalls.measure = benchmarkRuns
       /\ rcalls.warmup + rcalls.measure = warmupRuns + benchmarkRuns
       /\ Len(rtimes) <= benchmarkRuns
       /\ (Len(rtimes) < benchmarkRuns) <=> (rcalls.measureFailed > 0)

\* a warmup call and the first measurement call failed, the second succeeded
C3_Witness ==
  /\ rpc = "stats"
  /\ warmupRuns = 2
  /\ benchmarkRuns = 2
  /\ rcalls.warmupFailed >= 1
  /\ rcalls.measureFailed = 1
  /\ rresults[benchmarks[rb]].kind = "absent"
  /\ Len(rtimes) = 1

(***************************************************************************)
(* Properties of the batch writer.                                         *)
(***************************************************************************)
FailedCalls == {k \in DOMAIN wcalls : ~wcalls[k].ok}

\* C5: every chunk is submitted exactly once, in order, whether or not an
\* earlier chunk failed; a failed chunk adds one to errors and nothing else,
\* so the final errors is the number of failed chunks
C5_FailedChunkCountedAndSkipped ==
  wpc \in {"loop", "done"} =>
    /\ Len(wcalls) = wi
    /\ \A k \in DOMAIN wcalls : wcalls[k].batch = batches[k]
    /\ wresults.errors = Cardinality(FailedCalls)
    /\ Len(wresults.times) = Len(wcalls) - Cardinality(FailedCalls)
    /\ wpc = "done" => Len(wcalls) = Len(batches)

\* three chunks, the second failed, the first and the third completed
C5_Witness ==
  /\ wpc = "done"
  /\ Len(batches) = 3
  /\ FailedCalls = {2}
  /\ wcalls[3].ok
  /\ wresults.errors = 1
  /\ Len(wresults.times) = 2

\* C6: the chunks of createBatches concatenate to data, all but the last have
\* batchSize elements, the last has 1..batchSize, there are
\* ceil(|data| / batchSize) of them, and the backend is called once per chunk
C6_ChunksPartitionData ==
  wpc \in {"loop", "done"} =>
    /\ Concat(batches) = wdata
    /\ \A k \in 1..(Len(batches) - 1) : Len(batches[k]) = batchSize
    /\ batches # <<>> =>
         /\ Len(batches[Len(batches)]) >= 1
         /\ Len(batches[Len(batches)]) <= batchSize
    /\ Len(batches) = (Len(wdata) + batchSize - 1) \div batchSize
    /\ wdata = <<>> => batches = <<>>
    /\ wpc = "done" =>
         /\ Len(wcalls) = Len(batches)
         /\ \A k \in DOMAIN batches : wcalls[k].batch = batches[k]

\* 5 entities in chunks of 2: sizes 2, 2, 1, each written once
C6_Witness ==
  /\ wpc = "done"
  /\ batchSize = 2
  /\ Len(wdata) = 5
  /\ batches = << <<1, 2>>, <<3, 4>>, <<5>> >>
  /\ Len(wcalls) = 3

(***************************************************************************)
(* Properties of the concurrency harness.                                  *)
(***************************************************************************)
RejectedCalls == SumOver(crejected, DOMAIN crejected)

C10_NoErrorsWhenBackendNeverErrors ==
  (cpc = "done" /\ RejectedCalls = 0) =>
    /\ cresult.totalErrors = 0
    /\ cresult.errorRate.kind = "num"
    /\ cresult.errorRate.num = 0
    /\ cresult.totalOperations = concurrentUsers * operationsPerUser
    /\ Len(Concat([k \in DOMAIN users |-> users[k].times])) =
         concurrentUsers * operationsPerUser

C10_Witness ==
  /\ cpc = "done"
  /\ RejectedCalls = 0
  /\ concurrentUsers = 2
  /\ operationsPerUser = 2
  /\ cresult.totalOperations = 4
  /\ cresult.errorRate = Div(0, 4)

(***************************************************************************)
(* Properties of the full run.                                             *)
(***************************************************************************)
FullRunOver == fpc \in {"returned", "rejected"}

FailedConnections == {c \in ClientSet : connection[c] = "failed"}

\* the entries the report holds for backend db, one per place that is keyed
\* by backend name
ReportEntries(db) ==
  IF report.kind # "report" THEN {}
  ELSE {report.results[cat][db] :
          cat \in {c \in DOMAIN report.results : db \in DOMAIN report.results[c]}}
       \cup {report.summary.metrics[d] : d \in {db} \cap DOMAIN report.summary.metrics}

\* C1 as stated: in a run over several backends, when a backend's connect()
\* throws, the report marks that backend connection_failed and every other
\* requested backend is benchmarked in all three categories
C1_FailedConnectIsExcludedOnly ==
  (FullRunOver /\ Len(clients) >= 2 /\ FailedConnections # {}) =>
    /\ report.kind = "report"
    /\ \A c \in FailedConnections :
         \E e \in ReportEntries(c) :
           "status" \in DOMAIN e /\ e.status = "connection_failed"
    /\ \A c \in ClientSet \ FailedConnections :
         \A cat \in {"writes", "reads", "concurrency"} :
           cat \in DOMAIN report.results /\ c \in DOMAIN report.results[cat]

\* C2 as stated: when the run is over, the report holds an entry for every
\* requested backend name
C2_EveryRequestedBackendReported ==
  FullRunOver =>
    \A k \in DOMAIN databases : ReportEntries(databases[k]) # {}

(***************************************************************************)
(* Properties of the data generator.                                       *)
(***************************************************************************)
ConversationOf(m) ==
  CHOOSE c \in {conversations[k] : k \in DOMAIN conversations} :
    c.id = m.conversation_id

\* C7 as stated: every conversation has created_at <= last_message_at, and
\* every message of a conversation has a timestamp within
\* [created_at, last_message_at]
C7_MessagesWithinConversationBounds ==
  /\ \A k \in DOMAIN conversations :
       conversations[k].created_at <= conversations[k].last_message_at
  /\ \A k \in DOMAIN messages :
       /\ ConversationOf(messages[k]).created_at <= messages[k].timestamp
       /\ messages[k].timestamp <= ConversationOf(messages[k]).last_message_at

\* the (seller, buyer, platform) tuple of a conversation
TupleOf(c) == <<c.seller_id, c.buyer_id, c.platform>>

\* C8: at every point of generateConversations there are at most
\* |sellerIds| x conversationsPerSeller conversations (at most
\* conversationsPerSeller for each seller gone through), and no two of them
\* have the same (seller, buyer, platform) tuple
C8_ConversationsBoundedAndUnique ==
  gparams.op \in {"generateConversations", "generateRealisticConversationBatch"}
    => /\ Len(conversations) <= (gs - 1) * gparams.conversationsPerSeller
       /\ Len(conversations) <= Len(sellerIds) * gparams.conversationsPerSeller
       /\ \A i, j \in DOMAIN conversations :
            i # j => TupleOf(conversations[i]) # TupleOf(conversations[j])

\* generateConversations has returned several conversations for buyer ids
\* given twice, having skipped the tuples it had already
C8_Witness ==
  /\ gpc = "done"
  /\ gparams.op = "generateConversations"
  /\ \E i, j \in DOMAIN buyerIds : i # j /\ buyerIds[i] = buyerIds[j]
  /\ gparams.conversationsPerSeller >= 2
  /\ Len(conversations) >= 2
  /\ Len(conversations) < Len(sellerIds) * gparams.conversationsPerSeller

\* C9: a batch for B buyers and n messages per conversation has exactly B
\* buyers, those of the first platform followed by the rest on the second,
\* and once its messages are generated exactly n x |conversations| of them,
\* each with the id of one of its conversations
C9_ExactBuyersAndMessages ==
  gparams.op = "generateRealisticConversationBatch"
    => /\ Len(buyers) = gparams.buyerCount
       /\ Cardinality({k \in DOMAIN buyers : buyers[k].platform = "whatsapp"})
            + Cardinality({k \in DOMAIN buyers : buyers[k].platform = "instagram"})
            = gparams.buyerCount
       /\ Cardinality({buyers[k].id : k \in DOMAIN buyers}) = gparams.buyerCount
       /\ gpc = "bulk" =>
            Len(messages) = gparams.messagesPerConversation * (gc - 1)
       /\ gpc = "done" =>
            Len(messages) = gparams.messagesPerConversation * Len(conversations)
       /\ \A k \in DOMAIN messages :
            \E c \in DOMAIN conversations :
              conversations[c].id = messages[k].conversation_id

\* a finished batch with buyers on both platforms, a share that does not
\* divide them evenly, several conversations and several messages for each
C9_Witness ==
  /\ gpc = "done"
  /\ gparams.op = "generateRealisticConversationBatch"
  /\ gparams.buyerCount = MaxBuyers
  /\ (gparams.buyerCount * gparams.share) % 10 # 0
  /\ \E k \in DOMAIN buyers : buyers[k].platform = "whatsapp"
  /\ \E k \in DOMAIN buyers : buyers[k].platform = "instagram"
  /\ Len(conversations) >= 2
  /\ gparams.messagesPerConversation >= 2
  /\ Len(messages) = 2 * Len(conversations)

(***************************************************************************)
(* Statistics over no samples.                                             *)
(***************************************************************************)
\* the read statistics of an entry were computed over at least one sample
ReadStatisticsOverSamples ==
  \A n \in BenchmarkNames :
    rresults[n].kind = "full"
      => /\ rresults[n].runs > 0
         /\ rresults[n].avgTime.kind = "num"
         /\ rresults[n].minTime \in Int
         /\ rresults[n].maxTime \in Int

\* the batch writer returns after every chunk write it issued has failed
AllChunkWritesFailed ==
  /\ wpc = "done"
  /\ wcalls # <<>>
  /\ \A k \in DOMAIN wcalls : ~wcalls[k].ok

\* C11 as stated: when every measured call of an operation fails, its
\* avg/min/max/throughput are left undefined and never computed over the
\* empty sample set, in the read phase runner and in the batch writer
C11_NoStatisticsOverEmptySamples ==
  /\ ReadStatisticsOverSamples
  /\ AllChunkWritesFailed => wresults.stats = [kind |-> "none"]

(***************************************************************************)
(* The actors of the concurrency harness.                                  *)
(***************************************************************************)
\* C12: an actor of the harness has at most one backend call in flight, the
\* one it awaits, and has issued its next call only once every call before
\* it has settled
C12_ActorCallsInProgramOrder ==
  \A k \in DOMAIN users :
    /\ cissued[k] - csettled[k] \in {0, 1}
    /\ cissued[k] - csettled[k] = 1 <=> users[k].inflight # "none"
    /\ csettled[k] = users[k].i
    /\ cissued[k] <= operationsPerUser

\* two actors await a call each, one of them its second call
C12_Witness ==
  /\ cpc = "running"
  /\ Len(users) >= 2
  /\ \A k \in DOMAIN users : cissued[k] - csettled[k] = 1
  /\ \E k \in DOMAIN users : cissued[k] = 2 /\ csettled[k] = 1

\* C13: a call of actor A that fails adds one to A's errors and to nothing
\* else, leaves the operations, errors and times of every other actor as
\* they were, and A still issues every call of its loop before it returns
C13_FailureStaysWithItsActor ==
  /\ [](\A k \in DOMAIN users :
          /\ users[k].errors = crejected[k]
          /\ users[k].operations + users[k].errors = csettled[k]
          /\ Len(users[k].times) = users[k].operations
          /\ users[k].returned => cissued[k] = operationsPerUser)
  /\ [][\A k \in DOMAIN users :
          (k \in DOMAIN crejected' /\ crejected'[k] = crejected[k] + 1)
            => /\ users'[k].errors = users[k].errors + 1
               /\ users'[k].operations = users[k].operations
               /\ users'[k].times = users[k].times
               /\ \A j \in DOMAIN users \ {k} : users'[j] = users[j]]_vars

\* an actor whose first call failed has returned with its later call done,
\* next to an actor none of whose calls failed
C13_Witness ==
  /\ cpc = "running"
  /\ operationsPerUser >= 2
  /\ \E k, j \in DOMAIN users :
       /\ k # j
       /\ users[k].returned /\ users[k].errors = 1 /\ users[k].operations >= 1
       /\ users[j].errors = 0 /\ users[j].operations >= 1

(***************************************************************************)
(* The best performer of a category.                                       *)
(***************************************************************************)
\* the value of the k-th backend of the category
ValueAt(k) == valueOf(scall.category, sresults.entries[k].results)

\* a is strictly better than b for the call
Better(a, b) == IF scall.lowerIsBetter THEN Less(a, b) ELSE Less(b, a)

\* the backends whose value is not NaN
Comparable == {k \in DOMAIN sresults.entries : ValueAt(k).kind # "NaN"}

\* C14 as stated: for a category with at least one backend result the
\* backend selected is one whose value no other backend betters, the first
\* in iteration order of those with that value
C14_SelectsFirstExtremalBackend ==
  (spc = "done" /\ sresults.present /\ sresults.entries # <<>>)
    => \E k \in DOMAIN sresults.entries :
         /\ winner.database = sresults.entries[k].dbName
         /\ \A j \in DOMAIN sresults.entries : ~Better(ValueAt(j), ValueAt(k))
         /\ \A j \in 1..(k - 1) : Better(ValueAt(k), ValueAt(j))

\* C14, amended: a backend whose value is NaN (a mean over no entries) is
\* never selected; if some backend has another value, the first in iteration
\* order of those no backend betters is selected, with its value; if none
\* has, the database is null and the value the infinity the search began with
C14_SelectsFirstExtremalComparableBackend ==
  (spc = "done" /\ sresults.present)
    => IF Comparable = {}
         THEN /\ winner.database = "null"
              /\ winner.value = IF scall.lowerIsBetter THEN PositiveInfinity
                                                       ELSE NegativeInfinity
         ELSE \E k \in Comparable :
                /\ winner.database = sresults.entries[k].dbName
                /\ winner.value = ValueAt(k)
                /\ \A j \in Comparable : ~Better(ValueAt(j), ValueAt(k))
                /\ \A j \in Comparable : j < k => Better(ValueAt(k), ValueAt(j))

\* two backends tie on means that are different fractions, and the first is
\* selected
C14_Witness ==
  /\ spc = "done"
  /\ Len(sresults.entries) = 2
  /\ scall.category = "reads"
  /\ ValueAt(1) # ValueAt(2)
  /\ ~Less(ValueAt(1), ValueAt(2)) /\ ~Less(ValueAt(2), ValueAt(1))
  /\ Comparable = {1, 2}
  /\ winner.database = sresults.entries[1].dbName

(***************************************************************************)
(* The order of a full run.                                                *)
(***************************************************************************)
\* C15 as stated: a backend is processed fully before the next, so the
\* benchmarks run against one backend are never separated by a benchmark
\* run against another
C15_OneBackendFullyBeforeTheNext ==
  \A i, j, k \in DOMAIN fissued :
    (i < j /\ j < k /\ fissued[i].dbName = fissued[k].dbName)
      => fissued[j].dbName = fissued[i].dbName

\* the benchmarks of a full run: the categories in order and, within a
\* category, the clients in order
CategoryMajorOrder ==
  Concat([c \in 1..3 |->
            [k \in DOMAIN clients |->
               [category |-> <<"writes", "reads", "concurrency">>[c],
                dbName |-> clients[k]]]])

\* C15, amended: a full run goes category by category (writes, reads,
\* concurrency) and, within a category, one backend after the other in
\* client order, each benchmark finished before the next is begun
C15_OneCategoryFullyBeforeTheNext ==
  /\ Len(fissued) <= Len(CategoryMajorOrder)
  /\ fissued = SubSeq(CategoryMajorOrder, 1, Len(fissued))
  /\ fpc \in {"report", "returned"} => fissued = CategoryMajorOrder

\* a run over two backends has returned having run all six benchmarks
C15_Witness ==
  /\ fpc = "returned"
  /\ Len(clients) = 2
  /\ Len(fissued) = 6
  /\ fissued[2].dbName # fissued[1].dbName
  /\ fissued[3].dbName = fissued[1].dbName

(***************************************************************************)
(* Degenerate scenarios.                                                   *)
(***************************************************************************)
\* C16 as stated: a batch requested with zero sellers (or zero buyers) has
\* zero sellers (zero buyers), zero conversations and zero messages; one
\* requested with zero conversationsPerSeller has zero conversations and one
\* with zero messagesPerConversation zero messages
C16_ZeroCountsYieldEmptyCollections ==
  (gparams.op = "generateRealisticConversationBatch" /\ gpc = "done")
    => /\ gparams.requested.sellers = <<0>>
            => sellerIds = <<>> /\ conversations = <<>> /\ messages = <<>>
       /\ gparams.requested.buyers = <<0>>
            => buyers = <<>> /\ conversations = <<>> /\ messages = <<>>
       /\ gparams.requested.conversationsPerSeller = <<0>>
            => conversations = <<>> /\ messages = <<>>
       /\ gparams.requested.messagesPerConversation = <<0>>
            => messages = <<>>


(***************************************************************************)
(* Properties of the isolated benchmark command.                           *)
(***************************************************************************)
\* the command has started its containers itself and is at or between its
\* benchmarks
BetweenStartAndStop ==
  /\ dcommand.version # "none"
  /\ ~dcommand.skipDocker
  /\ dpc \in {"benchmark", "benchmarking", "stop", "benchmarks"}

\* C17: in isolated mode, once the orchestrator has started containers for
\* the benchmarks, at most one database container is up, and while a
\* benchmark runs against a database no container of another database is up.
C17_OneDatabaseUpAtATime ==
  BetweenStartAndStop =>
    /\ Cardinality(running) <= 1
    /\ target # "none" => running \subseteq {target}

\* the same of the first benchmark-isolated action alone
FirstActionIsolates ==
  dcommand.version = "first" => C17_OneDatabaseUpAtATime

(***************************************************************************)
(* Properties of the adapters.                                             *)
(***************************************************************************)
\* the i-th call is a disconnect() that no successful connect() precedes
\* since the disconnect() before it, if any
Redundant(i) ==
  /\ alog[i].method = "disconnect"
  /\ ~\E j \in 1..(i - 1) :
        /\ alog[j].method = "connect"
        /\ alog[j].ok
        /\ \A m \in (j + 1)..(i - 1) : alog[m].method # "disconnect"

\* C18: a disconnect() called a second time, or without a successful
\* connect() before it, does not throw, does not close a driver object that
\* was closed already, and leaves the adapter disconnected.
C18_DisconnectIsIdempotent ==
  \A i \in DOMAIN alog :
    Redundant(i) =>
      /\ alog[i].ok
      /\ alog[i].closes <= 1
      /\ ~alog[i].isConnected

\* the same of the two adapters over pg alone
PoolAdaptersIdempotent ==
  adapter \in ClearsHandle => C18_DisconnectIsIdempotent

(***************************************************************************)
(* Properties of the generated messages.                                   *)
(***************************************************************************)
\* C19: the messages generateConversationMessages returns for a conversation
\* are non-decreasing in timestamp, and sorting them by timestamp once more
\* gives the same sequence.
C19_MessagesSortedByTimestamp ==
  (gpc = "messages" /\ gparams.op = "generateConversationMessages") =>
    /\ \A k \in 1..(Len(messages) - 1) :
         messages[k].timestamp <= messages[k + 1].timestamp
    /\ SortMessages(messages) = messages

\* two messages were returned, the later one second
C19_Witness ==
  /\ gpc = "messages"
  /\ gparams.op = "generateConversationMessages"
  /\ Len(messages) = MaxMessages
  /\ messages[1].timestamp < messages[Len(messages)].timestamp

C21_AggregatesAfterAllActors ==
  cresult.kind = "result" =>
    /\ Len(users) = concurrentUsers
    /\ \A k \in DOMAIN users :
         /\ users[k].returned
         /\ users[k].inflight = "none"
         /\ users[k].i = operationsPerUser
         /\ csettled[k] = operationsPerUser
         /\ cissued[k] = csettled[k]

\* a result over several actors with several operations each, one of which
\* failed
C21_Witness ==
  /\ cresult.kind = "result"
  /\ concurrentUsers = MaxUsers
  /\ operationsPerUser = MaxOps
  /\ cresult.totalErrors = 1

\* C26: in every state of every interleaving an actor's successful
\* operations and errors add up to the operations it has finished, it has
\* one latency sample for each successful operation, and the result's
\* totalOperations + totalErrors is concurrentUsers * operationsPerUser.
C26_ActorCountsAddUp ==
  /\ \A k \in DOMAIN users :
       /\ users[k].operations + users[k].errors = csettled[k]
       /\ csettled[k] = users[k].i
       /\ Len(users[k].times) = users[k].operations
  /\ cresult.kind = "result" =>
       cresult.totalOperations + cresult.totalErrors
         = concurrentUsers * operationsPerUser

\* two actors are part-way, one with a failure and one with a success
C26_Witness ==
  /\ cpc = "running"
  /\ \E j, k \in DOMAIN users :
       /\ j # k
       /\ users[j].errors = 1 /\ users[j].inflight # "none"
       /\ users[k].operations = 1 /\ users[k].inflight # "none"

(***************************************************************************)
(* Properties of generateConversations and of the messages' senders.       *)
(***************************************************************************)
Distinct(q) == \A i, j \in DOMAIN q : i # j => q[i] # q[j]

\* the conversations made so far for a seller
ConversationsOf(sellerId) ==
  {k \in DOMAIN conversations : conversations[k].seller_id = sellerId}

\* C22: for pairwise distinct seller ids and pairwise distinct buyer ids,
\* every seller generateConversations has gone through has exactly
\* min(conversationsPerSeller, |buyerIds|) conversations, each with a
\* different buyer, whether or not the buyers suffice.
C22_UnderFillIsExact ==
  (/\ gparams.op \in {"generateConversations",
                      "generateRealisticConversationBatch"}
   /\ Distinct(sellerIds)
   /\ Distinct(buyerIds)) =>
    \A s \in 1..Min(gs - 1, Len(sellerIds)) :
      /\ Cardinality(ConversationsOf(sellerIds[s]))
           = Min(gparams.conversationsPerSeller, Len(buyerIds))
      /\ \A i, j \in ConversationsOf(sellerIds[s]) :
           i # j => conversations[i].buyer_id # conversations[j].buyer_id

\* two sellers were asked for more conversations than there are buyers, and
\* each got one for every buyer
C22_Witness ==
  /\ gpc = "done"
  /\ gparams.op = "generateConversations"
  /\ Distinct(sellerIds) /\ Len(sellerIds) = 2
  /\ Distinct(buyerIds) /\ Len(buyerIds) = 1
  /\ gparams.conversationsPerSeller = 2
  /\ Len(conversations) = 2

\* C23: every message generateConversationMessages returns carries the id of
\* the conversation it was generated for, and the id of that conversation's
\* seller when its sender_type is seller, of its buyer when it is buyer.
C23_SenderMatchesRole ==
  (gpc = "messages" /\ gparams.op = "generateConversationMessages") =>
    \A k \in DOMAIN messages :
      /\ messages[k].conversation_id = conversations[1].id
      /\ messages[k].sender_type \in senderTypes
      /\ messages[k].sender_type = "seller" =>
           messages[k].sender_id = conversations[1].seller_id
      /\ messages[k].sender_type = "buyer" =>
           messages[k].sender_id = conversations[1].buyer_id

\* a message of the seller and a message of the buyer were returned
C23_Witness ==
  /\ gpc = "messages"
  /\ gparams.op = "generateConversationMessages"
  /\ conversations[1].seller_id # conversations[1].buyer_id
  /\ \E j, k \in DOMAIN messages :
       /\ messages[j].sender_type = "seller"
       /\ messages[k].sender_type = "buyer"

(***************************************************************************)
(* Cleanup and the order of the phases of a full run.                      *)
(***************************************************************************)
\* C24: whenever runFullBenchmark is over, with a report or with an error,
\* whatever threw it, disconnect() has been called on every client.
C24_CleanupAlwaysRuns ==
  FullRunOver => disconnected = ClientSet

\* a run over two clients was rejected with what a phase threw, after
\* benchmarks had run
C24_Witness ==
  /\ fpc = "rejected"
  /\ fthrown = "phase"
  /\ Len(clients) = 2
  /\ fissued # <<>>
  /\ disconnected = ClientSet

\* the place of a category in the order of the phases
PhaseNumber(category) ==
  CASE category = "writes" -> 1
    [] category = "reads" -> 2
    [] category = "concurrency" -> 3

\* C25: benchmarks are issued only when every client's connect() has
\* succeeded, in the order writes, reads, concurrency; a report exists only
\* after all three phases went over every client; and a run in which a
\* connect() failed is rejected without a single benchmark.
C25_PhasesInOrderAfterAllConnected ==
  /\ fissued # <<>> => \A c \in ClientSet : connection[c] = "connected"
  /\ \A i, j \in DOMAIN fissued :
       i < j => PhaseNumber(fissued[i].category)
                  <= PhaseNumber(fissued[j].category)
  /\ fpc \in {"writes", "reads", "concurrency"} =>
       \A i \in DOMAIN fissued :
         PhaseNumber(fissued[i].category) <= PhaseNumber(fpc)
  /\ report.kind = "report" => fissued = CategoryMajorOrder
  /\ (FullRunOver /\ FailedConnections # {}) =>
       fpc = "rejected" /\ fissued = <<>> /\ report = NoReport

\* of two clients one connected and one did not, and the run was rejected
C25_Witness ==
  /\ fpc = "rejected"
  /\ fthrown = "connection"
  /\ \E c, d \in ClientSet :
       connection[c] = "connected" /\ connection[d] = "failed"

(***************************************************************************)
(* Waiting for a database and initializing the schemas.                    *)
(***************************************************************************)
WaitOver == qpc \in {"returned", "thrown"}

\* C27: waitForDatabase comes to an end after at most maxAttempts probes (60
\* in the orchestrator with modes, 30 in src/utils): each attempt issues one
\* probe, no probe follows a probe that found the database ready, a probe
\* that throws before the last attempt is followed by the next attempt, and
\* no probe follows the last attempt.
C27_WaitForDatabaseTerminates ==
  /\ [](/\ probes <= maxAttempts(qversion)
        /\ qpc = "probing" => probes = attempt
        /\ lastProbe = "ready" => qpc = "returned")
  /\ [][probes' # probes =>
          /\ probes' = probes + 1
          /\ lastProbe # "ready"
          /\ probes < maxAttempts(qversion)]_vars
  /\ [][(failures' # failures /\ attempt < maxAttempts(qversion)) =>
          qpc' = "waiting" /\ attempt' = attempt]_vars
  /\ [][qpc = "waiting" =>
          qpc' = "probing" /\ attempt' = attempt + 1]_vars
  /\ <>WaitOver

\* the database was found ready by a probe that followed probes that threw,
\* and: every attempt was used up
C27_Witness ==
  \/ /\ qpc = "returned"
     /\ lastProbe = "ready"
     /\ failures >= 2
     /\ probes > failures + 1
     /\ probes < maxAttempts(qversion)
     /\ qversion = "unnamed"
  \/ /\ WaitOver
     /\ lastProbe = "throws"
     /\ probes = maxAttempts(qversion)
     /\ qversion = "utils"

SchemasOver == ipc \in {"returned", "thrown"}

InRetry == ipc \in {"retrying", "retryWaiting", "retried"}

\* C28: initializeScyllaDBWithRetry calls initializeSchema at most 10 times,
\* returns true at the first call that succeeds and calls it no more,
\* returns false after the 10th failure in a row and never throws; and
\* initializeDatabaseSchemas goes through every database of its list in
\* order, whatever failed before.
C28_RetryIsBoundedAndFailuresAreSkipped ==
  /\ [](/\ tries <= maxRetries
        /\ ipc = "retrying" => tries = retry - 1
        /\ ipc = "retryWaiting" => tries = retry /\ retry < maxRetries
        /\ ipc = "retried" =>
             /\ retryResult \in {"true", "false"}
             /\ retryResult = "true" <=> ilog[Len(ilog)].ok
             /\ retryResult = "false" => tries = maxRetries
        /\ ipc # "thrown"
        /\ ipc \in {"client", "retrying", "retryWaiting"} =>
             Len(ilog) = ik - 1
        /\ ipc = "returned" =>
             /\ Len(ilog) = Len(idatabases)
             /\ \A k \in DOMAIN ilog : ilog[k].db = idatabases[k])
  /\ [][ipc = "retried" => tries' \in {tries, 0}]_vars

\* the schema of ScyllaDB was refused 10 times, and the database after it in
\* the list was initialized all the same
C28_Witness ==
  /\ ipc = "returned"
  /\ Len(ilog) = 2
  /\ ilog[1] = [db |-> "scylladb", ok |-> FALSE]
  /\ tries = maxRetries
  /\ retryResult = "false"
  /\ ilog[2].db # "scylladb"
  /\ ilog[2].ok

(***************************************************************************)
(* Failures in the isolated benchmark command and in starting databases.   *)
(***************************************************************************)
\* the first benchmark-isolated action, managing its containers itself
FirstWithDocker == dcommand.version = "first" /\ ~dcommand.skipDocker

\* the i-th docker command started database db
Started(i, db) ==
  /\ dlog[i].command = UpD({db})
  /\ dlog[i].ok

\* stopIsolatedDatabase(db) was invoked after the i-th docker command, or
\* cleanupAllContainers was: its commands are the last of the run
StoppedAfter(i, db) ==
  \/ \E j \in (i + 1)..Len(dlog) : dlog[j].command = Stop({db})
  \/ /\ dpc \in {"exited", "rejected"}
     /\ \E j \in (i + 1)..Len(dlog) :
          dlog[j].command = Down /\ j >= Len(dlog) - 1

\* C29: in the first benchmark-isolated action without --skip-docker, a
\* benchmark that fails is recorded as an error entry and the loop goes on
\* to stop the database like after a benchmark that succeeded, so that a
\* run that reaches its end has started and benchmarked every database; and
\* between two turns of the loop and at the end of the run every database
\* that was started has had stopIsolatedDatabase or cleanupAllContainers
\* invoked after its start.
C29_BenchmarkFailureIsRecordedAndContainersAreStopped ==
  /\ [](FirstWithDocker =>
          /\ dpc \in {"loop", "done", "exited", "rejected"} =>
               \A i \in DOMAIN dlog : \A db \in validDatabases :
                 Started(i, db) => StoppedAfter(i, db)
          /\ dpc \in {"stop", "loop", "done"} =>
               \A k \in 1..(dk - 1) \cup (IF dpc = "stop" THEN {dk} ELSE {}) :
                 /\ dcommand.databases[k] \in DOMAIN isolatedResults
                 /\ \E i \in DOMAIN dlog : Started(i, dcommand.databases[k])
          /\ dpc = "done" => dk = Len(dcommand.databases) + 1)
  /\ [][(FirstWithDocker /\ dpc = "benchmarking") =>
          /\ dpc' = "stop"
          /\ target \in DOMAIN isolatedResults'
          /\ \A db \in DOMAIN isolatedResults :
               db # target => /\ db \in DOMAIN isolatedResults'
                              /\ isolatedResults'[db] = isolatedResults[db]]_vars

\* the benchmark of the first of two databases failed, the second was
\* started and benchmarked, and both were stopped
C29_Witness ==
  /\ FirstWithDocker
  /\ dpc = "done"
  /\ Len(dcommand.databases) = 2
  /\ dcommand.databases[1] # dcommand.databases[2]
  /\ isolatedResults[dcommand.databases[1]] = "error"
  /\ isolatedResults[dcommand.databases[2]] = "report"
  /\ \E i, j \in DOMAIN dlog :
       /\ i < j
       /\ dlog[i].command = Stop({dcommand.databases[1]})
       /\ Started(j, dcommand.databases[2])

\* a call that starts databases was given a name that is no database
InvalidNameGiven ==
  /\ dcommand.version \in {"startDatabases", "startIsolatedDatabase"}
  /\ \E k \in DOMAIN dcommand.databases :
       dcommand.databases[k] \notin validDatabases

\* C30: startDatabases and startIsolatedDatabase called with a name that is
\* not one of the four databases throw an 'Invalid database' error, and no
\* docker command has run: the containers are as they were.
C30_NamesValidatedBeforeAnyCommand ==
  /\ [](InvalidNameGiven /\ dpc # "idle" =>
          /\ dpc = "thrown"
          /\ derror = "Invalid database"
          /\ dlog = <<>>)
  /\ [][InvalidNameGiven => running' = running]_vars

\* startDatabases has thrown for a list with a valid and an invalid name
\* while containers were up
C30_Witness ==
  /\ dcommand.version = "startDatabases"
  /\ dpc = "thrown"
  /\ derror = "Invalid database"
  /\ Len(dcommand.databases) = 2
  /\ dcommand.databases[1] \in validDatabases
  /\ dcommand.databases[2] \notin validDatabases
  /\ running # {}

\* startIsolatedDatabase has thrown for a name that is no database
StartIsolatedDatabaseRejectedName ==
  /\ dcommand.version = "startIsolatedDatabase"
  /\ dpc = "thrown"
  /\ derror = "Invalid database"
  /\ running # {}

=============================================================================
